---- MODULE Spec2Model ----
(***************************************************************************)
(* A model of the text chunkers (course/day2_chunking.py and               *)
(* project/day6_ingest.py) and of the tabular query tool                   *)
(* (project/query_tools.py) of the aihero repository.                      *)
(*                                                                         *)
(* Python strings are sequences of one-character strings, Python lists are *)
(* sequences, Python dictionaries are functions whose DOMAIN is the set of *)
(* keys.  A call that raises is recorded in the `exc' field of its         *)
(* outcome ("none" when the call returned).                                *)
(***************************************************************************)
EXTENDS Integers, Sequences, FiniteSets, TLC

\* ------------------------------------------------------------------ bounds
MaxLen == 5        \* longest string handed to sliding_window
MaxSize == 3       \* largest window size tried (the smallest is -1)
MaxStep == 3       \* largest step tried (the smallest is -1)
MaxDocs == 2       \* longest list of documents handed to a document chunker
MaxTotalLen == 3   \* most characters of content in one list of documents
MaxChunkSize == 2  \* largest chunk size a document chunker is called with
MaxChunkStep == 2  \* largest chunk step a document chunker is called with
MaxLevel == 2      \* deepest header level chunk_documents_by_sections is called with
MaxRows == 2       \* most rows of a loaded table
MaxLimit == 2      \* largest limit query_data is called with (the smallest is -1)

\* ----------------------------------------------------------------- helpers
Min(a, b) == IF a <= b THEN a ELSE b
Max(a, b) == IF a >= b THEN a ELSE b

\* ceil(a / b) for b > 0 (a may be negative)
CeilDiv(a, b) == -((-a) \div b)

\* every string over `alphabet' of at most `n' characters
Strings(alphabet, n) == UNION {[1..k -> alphabet] : k \in 0..n}

\* Python's s[i:j] for 0 <= i (0-based, end exclusive, clipped to the string;
\* a negative j counts from the end)
SliceInclusive(s, i, j) ==
    SubSeq(s, i + 1, Min(IF j < 0 THEN Max(j + Len(s), 0) + 1 ELSE j + 1, Len(s)))
Slice(s, i, j) ==
    SubSeq(s, i + 1, Min(IF j < 0 THEN Max(j + Len(s), 0) ELSE j, Len(s)))

\* ----------------------------------------------------------------- state
VARIABLES
    swImpl,     \* which sliding_window was called: "none", "day2" or "day6"
    swSeq,      \* its argument seq
    swSize,     \* its argument size
    swStep,     \* its argument step
    swOut       \* its outcome: [exc |-> ..., chunks |-> ...]

swVars == <<swImpl, swSeq, swSize, swStep, swOut>>

VARIABLES
    docHeap,    \* the dictionaries the caller holds, by reference (1..Len)
    documents,  \* the list handed to a document chunker: references
    docCall,    \* the last document chunker called, with its arguments
    docOut      \* its outcome: [exc |-> ..., chunks |-> ...]

docVars == <<docHeap, documents, docCall, docOut>>

VARIABLES
    dataframes, \* DataLoader.dataframes: table name -> table
    qCall,      \* the last QueryTool call, with its arguments
    qOut        \* its outcome: [exc |-> ..., ret |-> the dictionary returned]

qVars == <<dataframes, qCall, qOut>>

VARIABLES
    logEnv,     \* the module's LOG_DIR and the agent of the program
    logFiles,   \* the files on disk: path -> JSON document
    logCall,    \* the last call of a logging function and its arguments
    logOut      \* its outcome: [exc, ret]
logVars == <<logEnv, logFiles, logCall, logOut>>

VARIABLES
    ingPc,      \* index_data: the statement it is at
    ingArgs,    \* its arguments filter, chunk and chunking_params
    ingDocs,    \* its local docs
    ingIndex,   \* the Index it builds: [text_fields, docs, fits]
    ingTrace    \* the stages it ran, in order, with what they were given
ingVars == <<ingPc, ingArgs, ingDocs, ingIndex, ingTrace>>

VARIABLES
    loadedTables, \* app.py: data_loader.get_all_tables() is not empty
    chatMessages, \* st.session_state.messages: the chat history
    processing,   \* st.session_state.processing is set and true
    chatPc,       \* the script: "idle", "rerun" (a run is due), "responding"
    lastResponse,     \* st.session_state._last_response, None when absent
    lastChartParams,  \* st.session_state._last_chart_params, None when absent
    chartShown,   \* the chart the last response displayed, None for none
    agentPrompt   \* user_prompt of the last agent.run_stream, in pieces
chatVars == <<loadedTables, chatMessages, processing, chatPc, lastResponse, lastChartParams, chartShown, agentPrompt>>

VARIABLES
    indexDocs,  \* SimpleSearchIndex.docs
    searchCall, \* the last search made, with its arguments
    searchOut   \* its outcome: [exc, results]
searchVars == <<indexDocs, searchCall, searchOut>>

VARIABLES
    mdText,     \* split_markdown_by_level: its argument text
    mdLevel,    \* its argument level, 0 before the call
    mdOut       \* its outcome: [exc, sections]
mdVars == <<mdText, mdLevel, mdOut>>

VARIABLES
    dbEngines,   \* DataLoader.db_engines: db_name -> connection string
    frames,      \* DataLoader.dataframes, in insertion order: [name, df]
    tableDocs,   \* SchemaIndexer.table_docs
    agentState,  \* st.session_state: agent and agent_tables_key
    agentsMade,  \* how many agents init_agent has returned
    expCall,     \* the last call made and its arguments
    expOut       \* its outcome: [exc, ret]
expVars == <<dbEngines, frames, tableDocs, agentState, agentsMade, expCall, expOut>>

VARIABLES
    d6Program,   \* the day-6 program that runs: "none", "cli" or "web"
    d6Pc,        \* "ready", or "exited" / "crashed" for the CLI
    d6Messages,  \* day6_app.py: st.session_state.messages
    d6Last,      \* day6_app.py: st.session_state._last_response, None if unset
    d6Trace      \* what the program did, in order: [ev, text]
d6Vars == <<d6Program, d6Pc, d6Messages, d6Last, d6Trace>>

vars == <<swVars, docVars, qVars, logVars, ingVars, chatVars, searchVars, mdVars, expVars, d6Vars>>

\* everything but one group
exceptSw == <<docVars, qVars, logVars, ingVars, chatVars, searchVars, mdVars, expVars, d6Vars>>
exceptDoc == <<swVars, qVars, logVars, ingVars, chatVars, searchVars, mdVars, expVars, d6Vars>>
exceptQ == <<swVars, docVars, logVars, ingVars, chatVars, searchVars, mdVars, expVars, d6Vars>>
exceptLog == <<swVars, docVars, qVars, ingVars, chatVars, searchVars, mdVars, expVars, d6Vars>>
exceptIng == <<swVars, docVars, qVars, logVars, chatVars, searchVars, mdVars, expVars, d6Vars>>
exceptChat == <<swVars, docVars, qVars, logVars, ingVars, searchVars, mdVars, expVars, d6Vars>>
exceptSearch == <<swVars, docVars, qVars, logVars, ingVars, chatVars, mdVars, expVars, d6Vars>>
exceptMd == <<swVars, docVars, qVars, logVars, ingVars, chatVars, searchVars, expVars, d6Vars>>
exceptExp == <<swVars, docVars, qVars, logVars, ingVars, chatVars, searchVars, mdVars, d6Vars>>
exceptD6 == <<swVars, docVars, qVars, logVars, ingVars, chatVars, searchVars, mdVars, expVars>>

NoOutcome == [exc |-> "none", chunks |-> <<>>]

\* ------------------------------------------------------- sliding_window
\* the argument check both versions start with
InvalidArgsOnlyBoth(size, step) == size <= 0 /\ step <= 0
InvalidArgs(size, step) == size <= 0 \/ step <= 0

\* the loop with the break one window late (i + size > n)
RECURSIVE Day2LoopLateBreak(_, _, _, _, _)
Day2LoopLateBreak(seq, size, step, i, result) ==
    IF i >= Len(seq) THEN result
    ELSE LET chunk == Slice(seq, i, i + size)
             appended == Append(result, [start |-> i, chunk |-> chunk])
         IN  IF i + size > Len(seq) THEN appended
             ELSE Day2LoopLateBreak(seq, size, step, i + step, appended)

Day2SlidingWindowLateBreak(seq, size, step) ==
    IF size <= 0 \/ step <= 0 THEN [exc |-> "ValueError", chunks |-> <<>>]
    ELSE [exc |-> "none", chunks |-> Day2LoopLateBreak(seq, size, step, 0, <<>>)]

\* day2_chunking.sliding_window's loop, from index i on: for i in
\* range(0, n, step), append the window and break once i + size >= n
RECURSIVE Day2Loop(_, _, _, _, _)
Day2Loop(seq, size, step, i, result) ==
    IF i >= Len(seq) THEN result
    ELSE LET chunk == Slice(seq, i, i + size)
             appended == Append(result, [start |-> i, chunk |-> chunk])
         IN  IF i + size >= Len(seq) THEN appended
             ELSE Day2Loop(seq, size, step, i + step, appended)

\* range(0, n, step) is empty for a negative step and raises ValueError for
\* step = 0; neither happens after the argument check
Day2SlidingWindow(seq, size, step) ==
    IF InvalidArgs(size, step) THEN [exc |-> "ValueError", chunks |-> <<>>]
    ELSE IF step = 0 THEN [exc |-> "ValueError", chunks |-> <<>>]
    ELSE IF step < 0 THEN [exc |-> "none", chunks |-> <<>>]
    ELSE [exc |-> "none", chunks |-> Day2Loop(seq, size, step, 0, <<>>)]

\* day6_ingest.sliding_window's loop: the same, with `content' for the
\* text and the break at i + size > n
RECURSIVE Day6Loop(_, _, _, _, _)
Day6Loop(seq, size, step, i, result) ==
    IF i >= Len(seq) THEN result
    ELSE LET batch == Slice(seq, i, i + size)
             appended == Append(result, [start |-> i, content |-> batch])
         IN  IF i + size > Len(seq) THEN appended
             ELSE Day6Loop(seq, size, step, i + step, appended)

Day6SlidingWindow(seq, size, step) ==
    IF InvalidArgs(size, step) THEN [exc |-> "ValueError", chunks |-> <<>>]
    ELSE IF step = 0 THEN [exc |-> "ValueError", chunks |-> <<>>]
    ELSE IF step < 0 THEN [exc |-> "none", chunks |-> <<>>]
    ELSE [exc |-> "none", chunks |-> Day6Loop(seq, size, step, 0, <<>>)]

\* ------------------------------------------------------ text splitting
\* the characters str.strip() removes and the regex class \s matches
Whitespace == {" ", "\n", "\t", "\r"}

\* str.strip(): drop leading and trailing whitespace
RECURSIVE LStrip(_)
LStrip(s) ==
    IF s # <<>> /\ Head(s) \in Whitespace THEN LStrip(Tail(s)) ELSE s

RECURSIVE RStrip(_)
RStrip(s) ==
    IF s # <<>> /\ s[Len(s)] \in Whitespace
    THEN RStrip(SubSeq(s, 1, Len(s) - 1)) ELSE s

Strip(s) == RStrip(LStrip(s))

\* [x for x in parts if x] and the like: the non-empty strings of a list
RECURSIVE NonEmpty(_)
NonEmpty(parts) ==
    IF parts = <<>> THEN <<>>
    ELSE IF Head(parts) = <<>> THEN NonEmpty(Tail(parts))
    ELSE <<Head(parts)>> \o NonEmpty(Tail(parts))

StripAll(parts) == [k \in 1..Len(parts) |-> Strip(parts[k])]

\* where the regex \n\s*\n matches when tried at 1-based position p: p holds
\* a newline and the greedy \s* runs to the last newline of the whitespace
\* run that follows; 0 when it does not match at p
ParagraphBreakEnd(t, p) ==
    LET ends == {q \in (p + 1)..Len(t) :
                    /\ t[q] = "\n"
                    /\ \A k \in (p + 1)..(q - 1) : t[k] \in Whitespace}
    IN  IF t[p] = "\n" /\ ends # {}
        THEN CHOOSE q \in ends : \A r \in ends : r <= q
        ELSE 0

\* re.split(r"\n\s*\n", t), from 1-based position `from' on
RECURSIVE SplitParagraphBreaks(_, _)
SplitParagraphBreaks(t, from) ==
    LET starts == {p \in from..Len(t) : ParagraphBreakEnd(t, p) # 0}
    IN  IF starts = {} THEN <<SubSeq(t, from, Len(t))>>
        ELSE LET p == CHOOSE x \in starts : \A y \in starts : x <= y
             IN  <<SubSeq(t, from, p - 1)>>
                     \o SplitParagraphBreaks(t, ParagraphBreakEnd(t, p) + 1)

\* day2_chunking.split_by_paragraphs
SplitByParagraphs(text) ==
    NonEmpty(StripAll(SplitParagraphBreaks(Strip(text), 1)))

\* the regex ^(#{level,} )(.+)$: a header of that level or a deeper one
IsHeaderOfLevelOrDeeper(text, p, level) ==
    /\ p = 1 \/ text[p - 1] = "\n"
    /\ \E m \in level..Len(text) :
          /\ p + m + 1 <= Len(text)
          /\ \A k \in 0..(m - 1) : text[p + k] = "#"
          /\ text[p + m] = " "
          /\ text[p + m + 1] # "\n"

\* whether the regex ^(#{level} )(.+)$ (MULTILINE) matches at 1-based
\* position p: a line start, exactly `level' '#', a space, and at least one
\* more character on the line
IsHeaderAt(text, p, level) ==
    /\ p = 1 \/ text[p - 1] = "\n"
    /\ p + level + 1 <= Len(text)
    /\ \A k \in 0..(level - 1) : text[p + k] = "#"
    /\ text[p + level] = " "
    /\ text[p + level + 1] # "\n"

\* the position after the last character of the line that holds position p
LineEnd(text, p) ==
    LET nl == {q \in p..Len(text) : text[q] = "\n"}
    IN  IF nl = {} THEN Len(text) + 1
        ELSE CHOOSE q \in nl : \A r \in nl : q <= r

\* the first header of that level at or after position `from' (0: none)
NextHeader(text, from, level) ==
    LET hs == {p \in from..Len(text) : IsHeaderAt(text, p, level)}
    IN  IF hs = {} THEN 0 ELSE CHOOSE p \in hs : \A r \in hs : p <= r

\* day2_chunking.split_markdown_by_level, from position `from' on: one
\* section per header, its stripped header line and, when the text up to
\* the next header is not blank, an empty line and that text, stripped
RECURSIVE SectionsFrom(_, _, _)
SectionsFrom(text, from, level) ==
    LET h == NextHeader(text, from, level)
    IN  IF h = 0 THEN <<>>
        ELSE LET e == LineEnd(text, h)
                 n == NextHeader(text, e, level)
                 stop == IF n = 0 THEN Len(text) + 1 ELSE n
                 header == Strip(SubSeq(text, h, e - 1))
                 content == Strip(SubSeq(text, e, stop - 1))
                 section == IF content # <<>>
                            THEN header \o <<"\n", "\n">> \o content
                            ELSE header
             IN  <<section>> \o SectionsFrom(text, stop, level)

SplitMarkdownByLevel(text, level) == SectionsFrom(text, 1, level)

\* ------------------------------------------------------- dictionaries
\* d.get(key, default)
DictGet(d, key, default) == IF key \in DOMAIN d THEN d[key] ELSE default

\* d[key] = value
DictSet(d, key, value) ==
    [x \in DOMAIN d \cup {key} |-> IF x = key THEN value ELSE d[x]]

\* d.update(e)
DictUpdate(d, e) ==
    [x \in DOMAIN d \cup DOMAIN e |-> IF x \in DOMAIN e THEN e[x] ELSE d[x]]

\* doc.copy() on the heap h: a new dictionary with the same items
AliasDict(h, ref) == [heap |-> h, ref |-> ref]
CopyDict(h, ref) == [heap |-> Append(h, h[ref]), ref |-> Len(h) + 1]

\* d.pop(key, default) on the heap h
PopKey(h, ref, key, default) ==
    [heap |-> [h EXCEPT ![ref] = [x \in DOMAIN h[ref] \ {key} |-> h[ref][x]]],
     value |-> IF key \in DOMAIN h[ref] THEN h[ref][key] ELSE default]

\* the dictionaries a call created are dropped when it ends: the caller
\* keeps the n it held
ReleaseLocals(h, n) == SubSeq(h, 1, n)

\* --------------------------------------------------- document chunkers
\* chunk_documents_sliding_window, lines 119-122: one chunk document
UntaggedChunkDoc(doc_copy, chunk) ==
    DictSet(DictSet(doc_copy, "chunk", chunk.chunk), "chunk_start", chunk.start)
SlidingWindowChunkDoc(doc_copy, chunk) ==
    DictSet(DictSet(DictSet(doc_copy, "chunk", chunk.chunk),
                    "chunk_start", chunk.start),
            "chunk_method", "sliding_window")

\* day2_chunking.chunk_documents_sliding_window, from the k-th document on
RECURSIVE ChunkDocumentsSlidingWindowLoop(_, _, _, _, _, _)
ChunkDocumentsSlidingWindowLoop(h, docs, chunk_size, chunk_step, k, chunks) ==
    IF k > Len(docs) THEN [heap |-> h, exc |-> "none", chunks |-> chunks]
    ELSE LET copied == CopyDict(h, docs[k])
             popped == PopKey(copied.heap, copied.ref, "content", <<>>)
             doc_copy == popped.heap[copied.ref]
             doc_content == popped.value
         IN  IF doc_content = <<>>
             THEN ChunkDocumentsSlidingWindowLoop(
                      popped.heap, docs, chunk_size, chunk_step, k + 1, chunks)
             ELSE LET sw == Day2SlidingWindow(doc_content, chunk_size, chunk_step)
                      chunk_docs == [j \in 1..Len(sw.chunks) |->
                                        SlidingWindowChunkDoc(doc_copy, sw.chunks[j])]
                  IN  IF sw.exc # "none"
                      THEN [heap |-> popped.heap, exc |-> sw.exc, chunks |-> <<>>]
                      ELSE ChunkDocumentsSlidingWindowLoop(
                               popped.heap, docs, chunk_size, chunk_step, k + 1,
                               chunks \o chunk_docs)

ChunkDocumentsSlidingWindow(h, docs, chunk_size, chunk_step) ==
    ChunkDocumentsSlidingWindowLoop(h, docs, chunk_size, chunk_step, 1, <<>>)

\* f'section_level_{level}'
SectionMethod(level) == "section_level_" \o ToString(level)

\* day2_chunking.chunk_documents_by_sections, from the k-th document on
RECURSIVE ChunkDocumentsBySectionsLoop(_, _, _, _, _)
ChunkDocumentsBySectionsLoop(h, docs, level, k, chunks) ==
    IF k > Len(docs) THEN [heap |-> h, exc |-> "none", chunks |-> chunks]
    ELSE LET copied == CopyDict(h, docs[k])
             popped == PopKey(copied.heap, copied.ref, "content", <<>>)
             doc_copy == popped.heap[copied.ref]
             doc_content == popped.value
         IN  IF doc_content = <<>>
             THEN ChunkDocumentsBySectionsLoop(popped.heap, docs, level, k + 1, chunks)
             ELSE LET sections == SplitMarkdownByLevel(doc_content, level)
                      section_docs == [j \in 1..Len(sections) |->
                          DictSet(DictSet(doc_copy, "section", sections[j]),
                                  "chunk_method", SectionMethod(level))]
                  IN  ChunkDocumentsBySectionsLoop(
                          popped.heap, docs, level, k + 1, chunks \o section_docs)

ChunkDocumentsBySections(h, docs, level) ==
    ChunkDocumentsBySectionsLoop(h, docs, level, 1, <<>>)

\* day2_chunking.chunk_documents_by_paragraphs, from the k-th document on
RECURSIVE ChunkDocumentsByParagraphsLoop(_, _, _, _)
ChunkDocumentsByParagraphsLoop(h, docs, k, chunks) ==
    IF k > Len(docs) THEN [heap |-> h, exc |-> "none", chunks |-> chunks]
    ELSE LET copied == CopyDict(h, docs[k])
             popped == PopKey(copied.heap, copied.ref, "content", <<>>)
             doc_copy == popped.heap[copied.ref]
             doc_content == popped.value
         IN  IF doc_content = <<>>
             THEN ChunkDocumentsByParagraphsLoop(popped.heap, docs, k + 1, chunks)
             ELSE LET paragraphs == SplitByParagraphs(doc_content)
                      para_docs == [j \in 1..Len(paragraphs) |->
                          DictSet(DictSet(doc_copy, "paragraph", paragraphs[j]),
                                  "chunk_method", "paragraph")]
                  IN  ChunkDocumentsByParagraphsLoop(
                          popped.heap, docs, k + 1, chunks \o para_docs)

ChunkDocumentsByParagraphs(h, docs) ==
    ChunkDocumentsByParagraphsLoop(h, docs, 1, <<>>)

\* str.split('---'), from 1-based position `from' on
RECURSIVE SplitOnDashes(_, _)
SplitOnDashes(t, from) ==
    LET hits == {p \in from..(Len(t) - 2) :
                    t[p] = "-" /\ t[p + 1] = "-" /\ t[p + 2] = "-"}
    IN  IF hits = {} THEN <<SubSeq(t, from, Len(t))>>
        ELSE LET p == CHOOSE x \in hits : \A y \in hits : x <= y
             IN  <<SubSeq(t, from, p - 1)>> \o SplitOnDashes(t, p + 3)

\* the whole text as one section when llm_func raises
WholeTextOnError(text, llm_outcome) ==
    IF llm_outcome.exc # "none" THEN [exc |-> "none", sections |-> <<text>>]
    ELSE [exc |-> "none",
          sections |-> NonEmpty(StripAll(SplitOnDashes(llm_outcome.response, 1)))]

\* day2_chunking.intelligent_chunking, given what llm_func did with the
\* prompt: it raised, or returned a response
IntelligentChunking(text, llm_outcome) ==
    IF llm_outcome.exc # "none" THEN [exc |-> llm_outcome.exc, sections |-> <<>>]
    ELSE [exc |-> "none",
          sections |-> NonEmpty(StripAll(SplitOnDashes(llm_outcome.response, 1)))]

\* day2_chunking.chunk_documents_intelligent, from the k-th document on;
\* llm[k] is the outcome of the call of llm_func made for the k-th document
RECURSIVE ChunkDocumentsIntelligentLoop(_, _, _, _, _)
ChunkDocumentsIntelligentLoop(h, docs, llm, k, chunks) ==
    IF k > Len(docs)
    THEN [heap |-> h, exc |-> "none", chunks |-> chunks, printed |-> <<>>]
    ELSE LET copied == CopyDict(h, docs[k])
             popped == PopKey(copied.heap, copied.ref, "content", <<>>)
             doc_copy == popped.heap[copied.ref]
             doc_content == popped.value
         IN  IF doc_content = <<>>
             THEN ChunkDocumentsIntelligentLoop(popped.heap, docs, llm, k + 1, chunks)
             ELSE LET ic == IntelligentChunking(doc_content, llm[k])
                      section_docs == [j \in 1..Len(ic.sections) |->
                          DictSet(DictSet(doc_copy, "section", ic.sections[j]),
                                  "chunk_method", "intelligent_llm")]
                      error == [message |-> "Error processing document",
                                filename |-> DictGet(h[docs[k]], "filename", "unknown"),
                                e |-> ic.exc]
                      skipped == ChunkDocumentsIntelligentLoop(
                                     popped.heap, docs, llm, k + 1, chunks)
                  IN  IF ic.exc # "none"
                      THEN [skipped EXCEPT !.printed = <<error>> \o @]
                      ELSE ChunkDocumentsIntelligentLoop(
                               popped.heap, docs, llm, k + 1, chunks \o section_docs)

ChunkDocumentsIntelligent(h, docs, llm) ==
    ChunkDocumentsIntelligentLoop(h, docs, llm, 1, <<>>)

\* day6_ingest.chunk_documents, from the k-th document on
RECURSIVE ChunkDocumentsLoop(_, _, _, _, _, _)
ChunkDocumentsLoop(h, docs, size, step, k, chunks) ==
    IF k > Len(docs) THEN [heap |-> h, exc |-> "none", chunks |-> chunks]
    ELSE LET copied == CopyDict(h, docs[k])
             popped == PopKey(copied.heap, copied.ref, "content", <<>>)
             doc_copy == popped.heap[copied.ref]
             doc_content == popped.value
         IN  IF doc_content = <<>>
             THEN ChunkDocumentsLoop(popped.heap, docs, size, step, k + 1, chunks)
             ELSE LET sw == Day6SlidingWindow(doc_content, size, step)
                      doc_chunks == [j \in 1..Len(sw.chunks) |->
                                        DictUpdate(sw.chunks[j], doc_copy)]
                  IN  IF sw.exc # "none"
                      THEN [heap |-> popped.heap, exc |-> sw.exc, chunks |-> <<>>]
                      ELSE ChunkDocumentsLoop(
                               popped.heap, docs, size, step, k + 1,
                               chunks \o doc_chunks)

ChunkDocuments(h, docs, size, step) ==
    ChunkDocumentsLoop(h, docs, size, step, 1, <<>>)

\* ------------------------------------------- tables (pandas DataFrame)
\* A table is [columns |-> list of names, dtypes |-> name -> "number" or
\* "object", rows |-> list of (name -> cell), index |-> the names of the
\* columns that became the index (<<>>: the default index)].  Cells of a
\* "number" column are integers, cells of an "object" column are strings.
\* A value handed in by the caller is tagged: [kind |-> "number" or "str",
\* v |-> the value].

\* the order of the strings that occur in tables
StrRank == [p |-> 1, q |-> 2]

OrderedOps == {">", "<", ">=", "<="}
KnownOps == OrderedOps \cup {"==", "!="}

SameKind(dtype, val) ==
    \/ dtype = "number" /\ val.kind = "number"
    \/ dtype = "object" /\ val.kind = "str"

\* cell <op> val for a cell and a value of the same kind
CompareSame(dtype, cell, op, v) ==
    LET a == IF dtype = "number" THEN cell ELSE StrRank[cell]
        b == IF dtype = "number" THEN v ELSE StrRank[v]
    IN  CASE op = ">" -> a > b
          [] op = "<" -> a < b
          [] op = ">=" -> a >= b
          [] op = "<=" -> a <= b
          [] op = "==" -> a = b
          [] op = "!=" -> a # b

\* one element of the mask df[col] <op> val: values of different kinds are
\* unequal
CompareCell(dtype, cell, op, val) ==
    IF SameKind(dtype, val) THEN CompareSame(dtype, cell, op, val.v)
    ELSE op = "!="

\* df[col] <op> val raises TypeError for an ordering of values of different
\* kinds: always for a numeric column, at the first element for an object one
CompareRaises(df, col, op, val) ==
    /\ op \in OrderedOps
    /\ ~SameKind(df.dtypes[col], val)
    /\ df.dtypes[col] = "number" \/ df.rows # <<>>

\* df = df[df[col] <op> val]
FilterRows(df, col, op, val) ==
    IF CompareRaises(df, col, op, val) THEN [exc |-> "TypeError", df |-> df]
    ELSE LET Keep(row) == CompareCell(df.dtypes[col], row[col], op, val)
         IN  [exc |-> "none", df |-> [df EXCEPT !.rows = SelectSeq(df.rows, Keep)]]

\* query_data, lines 63-75: the operators of one {op: val} filter, from the
\* k-th on; an operator that is none of the six is skipped
RECURSIVE ApplyOps(_, _, _, _)
ApplyOps(df, col, ops, k) ==
    IF k > Len(ops) THEN [exc |-> "none", df |-> df]
    ELSE LET op == ops[k][1]
             val == ops[k][2]
         IN  IF op \notin KnownOps THEN ApplyOps(df, col, ops, k + 1)
             ELSE LET r == FilterRows(df, col, op, val)
                  IN  IF r.exc # "none" THEN r
                      ELSE ApplyOps(r.df, col, ops, k + 1)

\* the loop with every filter applied to the table as it was loaded
RECURSIVE ApplyFiltersToOriginal(_, _, _)
ApplyFiltersToOriginal(df, filters, k) ==
    IF k > Len(filters) THEN [exc |-> "none", df |-> df]
    ELSE LET col == filters[k][1]
             value == filters[k][2]
             r == IF value.kind = "ops" THEN ApplyOps(df, col, value.ops, 1)
                  ELSE FilterRows(df, col, "==", value.val)
             rest == ApplyFiltersToOriginal(df, filters, k + 1)
         IN  IF col \notin DOMAIN df.dtypes THEN rest
             ELSE IF r.exc # "none" THEN r
             ELSE IF k = Len(filters) THEN r
             ELSE rest

\* query_data, lines 58-77: the filters, from the k-th on; a filter is
\* <<column, value>>, its value [kind |-> "eq", val |-> v] or
\* [kind |-> "ops", ops |-> list of <<op, val>>]; a column the table does
\* not have is skipped
RECURSIVE ApplyFilters(_, _, _)
ApplyFilters(df, filters, k) ==
    IF k > Len(filters) THEN [exc |-> "none", df |-> df]
    ELSE LET col == filters[k][1]
             value == filters[k][2]
         IN  IF col \notin DOMAIN df.dtypes THEN ApplyFilters(df, filters, k + 1)
             ELSE LET r == IF value.kind = "ops"
                           THEN ApplyOps(df, col, value.ops, 1)
                           ELSE FilterRows(df, col, "==", value.val)
                  IN  IF r.exc # "none" THEN r
                      ELSE ApplyFilters(r.df, filters, k + 1)

\* [col for col in names if col in df.columns]
RECURSIVE AvailableCols(_, _)
AvailableCols(names, df) ==
    IF names = <<>> THEN <<>>
    ELSE IF Head(names) \in DOMAIN df.dtypes
         THEN <<Head(names)>> \o AvailableCols(Tail(names), df)
    ELSE AvailableCols(Tail(names), df)

SeqToSet(q) == {q[k] : k \in 1..Len(q)}

\* df[cols]
Project(df, cols) ==
    [columns |-> cols,
     dtypes |-> [c \in SeqToSet(cols) |-> df.dtypes[c]],
     rows |-> [k \in 1..Len(df.rows) |-> [c \in SeqToSet(cols) |-> df.rows[k][c]]],
     index |-> df.index]

\* the columns of a list that are not in a set, in order
RECURSIVE ColsWithout(_, _)
ColsWithout(cols, drop) ==
    IF cols = <<>> THEN <<>>
    ELSE IF Head(cols) \in drop THEN ColsWithout(Tail(cols), drop)
    ELSE <<Head(cols)>> \o ColsWithout(Tail(cols), drop)

\* df.select_dtypes(include=['number']).columns
NumericCols(df) ==
    ColsWithout(df.columns, {c \in DOMAIN df.dtypes : df.dtypes[c] # "number"})

\* the rank of a cell in the order of its kind
CellRank(dtype, cell) == IF dtype = "number" THEN cell ELSE StrRank[cell]

\* the group key of a row: its cells in the group columns
KeyOf(row, group_cols) == [k \in 1..Len(group_cols) |-> row[group_cols[k]]]

\* key a sorts before key b (groupby sorts its groups by key)
RECURSIVE KeyLess(_, _, _, _, _)
KeyLess(a, b, df, group_cols, k) ==
    IF k > Len(group_cols) THEN FALSE
    ELSE LET t == df.dtypes[group_cols[k]]
         IN  IF CellRank(t, a[k]) < CellRank(t, b[k]) THEN TRUE
             ELSE IF CellRank(t, a[k]) > CellRank(t, b[k]) THEN FALSE
             ELSE KeyLess(a, b, df, group_cols, k + 1)

\* df.groupby(group_cols): the keys that occur, sorted
GroupKeys(df, group_cols) ==
    LET keys == {KeyOf(df.rows[k], group_cols) : k \in 1..Len(df.rows)}
        Less(a, b) == KeyLess(a, b, df, group_cols, 1)
    IN  SortSeq(CHOOSE q \in [1..Cardinality(keys) -> keys] : SeqToSet(q) = keys,
                Less)

\* the rows of one group
GroupRows(df, group_cols, key) ==
    LET Keep(row) == KeyOf(row, group_cols) = key
    IN  SelectSeq(df.rows, Keep)

RECURSIVE SumCells(_)
SumCells(cells) == IF cells = <<>> THEN 0 ELSE Head(cells) + SumCells(Tail(cells))

RECURSIVE ConcatCells(_)
ConcatCells(cells) ==
    IF cells = <<>> THEN "" ELSE Head(cells) \o ConcatCells(Tail(cells))

\* the largest (sign = 1) or smallest (sign = -1) cell of a non-empty list
Extreme(dtype, cells, sign) ==
    CHOOSE c \in SeqToSet(cells) :
        \A d \in SeqToSet(cells) :
            sign * CellRank(dtype, c) >= sign * CellRank(dtype, d)

\* one aggregate of the cells of a column; a mean is kept as the sum and
\* the number of cells, "NaN" stands for the aggregate of no cells;
\* the mean of an object column raises TypeError
Aggregate(aggregation, dtype, cells) ==
    CASE aggregation = "sum" ->
             [exc |-> "none",
              v |-> IF dtype = "number" THEN SumCells(cells) ELSE ConcatCells(cells)]
      [] aggregation = "mean" ->
             IF dtype # "number" THEN [exc |-> "TypeError", v |-> "NaN"]
             ELSE IF cells = <<>> THEN [exc |-> "none", v |-> "NaN"]
             ELSE [exc |-> "none", v |-> [sum |-> SumCells(cells), n |-> Len(cells)]]
      [] aggregation = "max" ->
             [exc |-> "none",
              v |-> IF cells = <<>> THEN "NaN" ELSE Extreme(dtype, cells, 1)]
      [] aggregation = "min" ->
             [exc |-> "none",
              v |-> IF cells = <<>> THEN "NaN" ELSE Extreme(dtype, cells, -1)]

ColumnCells(rows, col) == [k \in 1..Len(rows) |-> rows[k][col]]

\* df.groupby(group_cols).mean() / .sum() / .max() / .min(): one row per
\* group with the aggregate of every other column; the group columns become
\* the index
GroupAggregate(df, group_cols, aggregation) ==
    LET keys == GroupKeys(df, group_cols)
        value_cols == ColsWithout(df.columns, SeqToSet(group_cols))
        Cell(key, c) == Aggregate(aggregation, df.dtypes[c],
                                  ColumnCells(GroupRows(df, group_cols, key), c))
        failed == \E k \in 1..Len(keys), c \in SeqToSet(value_cols) :
                      Cell(keys[k], c).exc # "none"
        typeFails == aggregation = "mean"
                        /\ \E c \in SeqToSet(value_cols) : df.dtypes[c] # "number"
    IN  IF failed \/ typeFails THEN [exc |-> "TypeError", result |-> df]
        ELSE [exc |-> "none",
              result |->
                 [columns |-> value_cols,
                  dtypes |-> [c \in SeqToSet(value_cols) |-> df.dtypes[c]],
                  rows |-> [k \in 1..Len(keys) |->
                               [c \in SeqToSet(value_cols) |-> Cell(keys[k], c).v]],
                  index |-> group_cols,
                  keys |-> keys]]

\* grouped.reset_index(): the index columns become the first columns
ResetIndex(g, df) ==
    LET cols == g.index \o g.columns
    IN  [columns |-> cols,
         dtypes |-> [c \in SeqToSet(cols) |->
                        IF c \in DOMAIN g.dtypes THEN g.dtypes[c] ELSE df.dtypes[c]],
         rows |-> [k \in 1..Len(g.rows) |->
                      [c \in SeqToSet(cols) |->
                          IF c \in DOMAIN g.dtypes THEN g.rows[k][c]
                          ELSE LET i == CHOOSE j \in 1..Len(g.index) : g.index[j] = c
                               IN  g.keys[k][i]]],
         index |-> <<>>]

\* df.groupby(group_cols).size().reset_index(name='count')
GroupCount(df, group_cols) ==
    LET keys == GroupKeys(df, group_cols)
        cols == group_cols \o <<"count">>
    IN  [columns |-> cols,
         dtypes |-> [c \in SeqToSet(cols) |->
                        IF c = "count" THEN "number" ELSE df.dtypes[c]],
         rows |-> [k \in 1..Len(keys) |->
                      [c \in SeqToSet(cols) |->
                          IF c = "count"
                          THEN Len(GroupRows(df, group_cols, keys[k]))
                          ELSE LET i == CHOOSE j \in 1..Len(group_cols) :
                                            group_cols[j] = c
                               IN  keys[k][i]]],
         index |-> <<>>]

\* df[numeric_cols].mean() / .sum() / .max() / .min(): a Series, one entry
\* per numeric column
SeriesAggregate(df, numeric_cols, aggregation) ==
    [c \in SeqToSet(numeric_cols) |->
        Aggregate(aggregation, "number", ColumnCells(df.rows, c)).v]

\* rows.head(n): the first n rows, all but the last -n for a negative n
HeadAll(rows, n) == rows
HeadRows(rows, n) ==
    SubSeq(rows, 1, IF n >= 0 THEN Min(n, Len(rows)) ELSE Max(Len(rows) + n, 0))

\* ------------------------------------------------------------ QueryTool
\* None, for an argument that was not given
None == "None"

\* DataLoader.get_all_tables: list(self.dataframes.keys()); one table name
\* at most is ever loaded here, so the order of the keys is not modelled
GetAllTables(tables) ==
    CHOOSE q \in [1..Cardinality(DOMAIN tables) -> DOMAIN tables] :
        SeqToSet(q) = DOMAIN tables

\* query_data and create_chart, lines 47-51 and 186-190
TableNotFound(tables, table_name) ==
    [exc |-> "none",
     type |-> "none",
     ret |-> [error |-> "Table '" \o table_name \o "' not found",
              available_tables |-> GetAllTables(tables)]]

\* the except clause of query_data and create_chart: any exception of the
\* try block becomes an error dictionary
CatchValueError(r, table_name) ==
    IF r.exc = "ValueError"
    THEN [exc |-> "none", type |-> "none",
          ret |-> [error |-> r.exc, table_name |-> table_name]]
    ELSE r
CatchException(r, table_name) ==
    IF r.exc # "none"
    THEN [exc |-> "none", type |-> "none",
          ret |-> [error |-> r.exc, table_name |-> table_name]]
    ELSE r

Raised(exc) == [exc |-> exc, type |-> "none", ret |-> <<>>]

\* query_data, lines 86-123: the aggregation; the result is a DataFrame
\* ("frame") or a Series ("series")
QueryAggregation(df, aggregation, group_by) ==
    LET group_cols == AvailableCols(group_by, df)
        numeric_cols == NumericCols(df)
        Frame(d) == [exc |-> "none", type |-> "frame", result |-> d]
        Series(e) == [exc |-> "none", type |-> "series", result |-> e]
    IN  IF aggregation = None THEN Frame(df)
        ELSE IF group_by # <<>>
        THEN IF group_cols = <<>> THEN Frame(df)
             ELSE IF aggregation \in {"mean", "sum", "max", "min"}
             THEN LET g == GroupAggregate(df, group_cols, aggregation)
                  IN  IF g.exc # "none"
                      THEN [exc |-> g.exc, type |-> "none", result |-> df]
                      ELSE Frame(g.result)
             ELSE IF aggregation = "count" THEN Frame(GroupCount(df, group_cols))
             ELSE Frame(df)
        ELSE IF numeric_cols = <<>> THEN Frame(df)
             ELSE IF aggregation \in {"mean", "sum", "max", "min"}
             THEN Series([index |-> numeric_cols,
                          values |-> SeriesAggregate(df, numeric_cols, aggregation)])
             ELSE IF aggregation = "count"
             THEN Series([index |-> <<"count">>, values |-> [count |-> Len(df.rows)]])
             ELSE Frame(df)

\* query_data, lines 56-140: the try block
QueryDataTry(tables, table_name, columns, filters, aggregation, group_by, limit) ==
    LET original == tables[table_name]
        filtered == ApplyFilters(original, filters, 1)
        available_cols == AvailableCols(columns, filtered.df)
        df == IF columns # <<>> /\ available_cols # <<>>
              THEN Project(filtered.df, available_cols)
              ELSE filtered.df
        agg == QueryAggregation(df, aggregation, group_by)
        result == agg.result
    IN  IF filtered.exc # "none" THEN Raised(filtered.exc)
        ELSE IF agg.exc # "none" THEN Raised(agg.exc)
        ELSE [exc |-> "none",
              type |-> agg.type,
              ret |-> [success |-> TRUE,
                       table_name |-> table_name,
                       result |-> IF agg.type = "series" THEN result.values
                                  ELSE HeadRows(result.rows, limit),
                       row_count |-> IF agg.type = "frame" THEN Len(result.rows)
                                     ELSE 1,
                       original_row_count |-> Len(original.rows),
                       columns |-> IF agg.type = "frame" THEN result.columns
                                   ELSE result.index]]

\* QueryTool.query_data
QueryData(tables, table_name, columns, filters, aggregation, group_by, limit) ==
    IF table_name \notin DOMAIN tables THEN TableNotFound(tables, table_name)
    ELSE CatchException(
             QueryDataTry(tables, table_name, columns, filters, aggregation,
                          group_by, limit),
             table_name)

\* create_chart, lines 217-231: grouping and aggregation
ChartGrouping(df, y_column, group_by, aggregation) ==
    LET Ok(d) == [exc |-> "none", df |-> d]
        g == IF y_column # None
             THEN GroupAggregate(Project(df, <<group_by, y_column>>),
                                 <<group_by>>, aggregation)
             ELSE GroupAggregate(df, <<group_by>>, aggregation)
    IN  IF group_by = None \/ aggregation = None THEN Ok(df)
        ELSE IF group_by \notin DOMAIN df.dtypes THEN Ok(df)
        ELSE IF aggregation = "count" THEN Ok(GroupCount(df, <<group_by>>))
        ELSE IF aggregation \notin {"sum", "mean", "max", "min"} THEN Ok(df)
        ELSE IF y_column # None /\ y_column \notin DOMAIN df.dtypes
        THEN [exc |-> "KeyError", df |-> df]
        ELSE IF y_column = group_by THEN [exc |-> "ValueError", df |-> df]
        ELSE IF g.exc # "none" THEN [exc |-> g.exc, df |-> df]
        ELSE Ok(ResetIndex(g.result, df))

\* the chart types that need both columns, and the error without them
ChartNeedsBoth == {"bar", "line", "scatter", "pie"}
ChartRequires ==
    [bar |-> "Bar chart requires both x_column and y_column",
     line |-> "Line chart requires both x_column and y_column",
     scatter |-> "Scatter chart requires both x_column and y_column",
     pie |-> "Pie chart requires both x_column (labels) and y_column (values)"]

\* create_chart, lines 234-279: the figure; plotly raises ValueError for a
\* column the table does not have
ChartFigure(df, table_name, chart_type, x_column, y_column, group_by, aggregation, filters, title) ==
    LET used == IF chart_type = "histogram" THEN {y_column}
                ELSE {x_column, y_column}
        Error(text) == [exc |-> "none", type |-> "none", ret |-> [error |-> text]]
        auto == IF x_column # None /\ y_column # None
                THEN y_column \o " by " \o x_column
                ELSE "Chart of " \o y_column
    IN  IF chart_type \in ChartNeedsBoth /\ (x_column = None \/ y_column = None)
        THEN Error(ChartRequires[chart_type])
        ELSE IF chart_type = "histogram" /\ y_column = None
        THEN Error("Histogram requires y_column")
        ELSE IF chart_type \notin ChartNeedsBoth \cup {"histogram"}
        THEN Error("Unknown chart type: " \o chart_type)
        ELSE IF ~(used \subseteq DOMAIN df.dtypes) THEN Raised("ValueError")
        ELSE [exc |-> "none",
              type |-> "none",
              ret |-> [success |-> TRUE,
                       chart_type |-> chart_type,
                       x_column |-> x_column,
                       y_column |-> y_column,
                       group_by |-> group_by,
                       aggregation |-> aggregation,
                       filters |-> filters,
                       title |-> IF title # None THEN title ELSE auto,
                       table_name |-> table_name,
                       data_points |-> Len(df.rows),
                       columns_used |-> IF x_column # None /\ y_column # None
                                        THEN <<x_column, y_column>>
                                        ELSE <<y_column>>]]

\* create_chart, lines 194-279: the try block
CreateChartTry(tables, table_name, chart_type, x_column, y_column, group_by, aggregation, filters, title) ==
    LET filtered == ApplyFilters(tables[table_name], filters, 1)
        grouped == ChartGrouping(filtered.df, y_column, group_by, aggregation)
    IN  IF filtered.exc # "none" THEN Raised(filtered.exc)
        ELSE IF grouped.exc # "none" THEN Raised(grouped.exc)
        ELSE ChartFigure(grouped.df, table_name, chart_type, x_column, y_column,
                         group_by, aggregation, filters, title)

\* QueryTool.create_chart
CreateChart(tables, table_name, chart_type, x_column, y_column, group_by, aggregation, filters, title) ==
    IF table_name \notin DOMAIN tables THEN TableNotFound(tables, table_name)
    ELSE CatchException(
             CreateChartTry(tables, table_name, chart_type, x_column, y_column,
                            group_by, aggregation, filters, title),
             table_name)

\* -------------------------------------------------------------- logging
\* strings that are formatted or parsed are sequences of characters
Digits == <<"0", "1", "2", "3", "4", "5", "6", "7", "8", "9">>
HexDigits == Digits \o <<"a", "b", "c", "d", "e", "f">>

\* "%0<width>d" % n
RECURSIVE ZeroPad(_, _)
ZeroPad(n, width) ==
    IF width = 0 THEN <<>>
    ELSE ZeroPad(n \div 10, width - 1) \o <<Digits[(n % 10) + 1]>>

\* int(s) for a string of decimal digits
RECURSIVE ParseInt(_)
ParseInt(s) ==
    IF s = <<>> THEN 0
    ELSE 10 * ParseInt(SubSeq(s, 1, Len(s) - 1))
             + ((CHOOSE d \in 1..10 : Digits[d] = s[Len(s)]) - 1)

\* a datetime; tz is "naive" or "utc"
Datetime(year, month, day, hour, minute, second, microsecond, tz) ==
    [type |-> "datetime", year |-> year, month |-> month, day |-> day,
     hour |-> hour, minute |-> minute, second |-> second,
     microsecond |-> microsecond, tz |-> tz]

\* a str where the code tells it from a datetime
StrValue(chars) == [type |-> "str", s |-> chars]

\* ts.strftime("%Y%m%d_%H%M%S")
Strftime(ts) ==
    ZeroPad(ts.year, 4) \o ZeroPad(ts.month, 2) \o ZeroPad(ts.day, 2) \o <<"_">>
        \o ZeroPad(ts.hour, 2) \o ZeroPad(ts.minute, 2) \o ZeroPad(ts.second, 2)

\* obj.isoformat()
Isoformat(ts) ==
    ZeroPad(ts.year, 4) \o <<"-">> \o ZeroPad(ts.month, 2) \o <<"-">>
        \o ZeroPad(ts.day, 2) \o <<"T">> \o ZeroPad(ts.hour, 2) \o <<":">>
        \o ZeroPad(ts.minute, 2) \o <<":">> \o ZeroPad(ts.second, 2)
        \o (IF ts.microsecond # 0
            THEN <<".">> \o ZeroPad(ts.microsecond, 6) ELSE <<>>)
        \o (IF ts.tz = "utc" THEN <<"+", "0", "0", ":", "0", "0">> ELSE <<>>)

\* datetime.fromisoformat(s), for a string isoformat() produced
FromIsoformat(s) ==
    LET fraction == Len(s) > 19 /\ s[20] = "."
        rest == IF fraction THEN 26 ELSE 19
    IN  Datetime(ParseInt(SubSeq(s, 1, 4)), ParseInt(SubSeq(s, 6, 7)),
                 ParseInt(SubSeq(s, 9, 10)), ParseInt(SubSeq(s, 12, 13)),
                 ParseInt(SubSeq(s, 15, 16)), ParseInt(SubSeq(s, 18, 19)),
                 IF fraction THEN ParseInt(SubSeq(s, 21, 26)) ELSE 0,
                 IF Len(s) > rest THEN "utc" ELSE "naive")

\* secrets.token_hex(nbytes): two hexadecimal digits per random byte
RECURSIVE TokenHex(_)
TokenHex(bytes) ==
    IF bytes = <<>> THEN <<>>
    ELSE <<HexDigits[(Head(bytes) \div 16) + 1], HexDigits[(Head(bytes) % 16) + 1]>>
             \o TokenHex(Tail(bytes))

\* log_entry: tools.extend(ts.tools.keys()) for every toolset
RECURSIVE ToolNames(_)
ToolNames(toolsets) ==
    IF toolsets = <<>> THEN <<>> ELSE Head(toolsets) \o ToolNames(Tail(toolsets))

\* log_entry; messages are the dictionaries of ModelMessagesTypeAdapter
LogEntry(agent, messages, source) ==
    [agent_name |-> agent.name,
     system_prompt |-> agent.instructions,
     provider |-> agent.system,
     model |-> agent.model_name,
     tools |-> ToolNames(agent.toolsets),
     messages |-> messages,
     source |-> source]

\* serializer, the default of json.dump: a datetime is written as its
\* isoformat(); a str is written as it is
Serializer(obj) == IF obj.type = "datetime" THEN StrValue(Isoformat(obj)) ELSE obj

\* json.dump of a dictionary that may hold a 'timestamp'
DumpTimestamp(d) ==
    [k \in DOMAIN d |-> IF k = "timestamp" THEN Serializer(d[k]) ELSE d[k]]

\* json.dump of one message: its parts and its own timestamp
DumpMessage(m) ==
    LET parts == [k \in 1..Len(m.parts) |-> DumpTimestamp(m.parts[k])]
    IN  [DumpTimestamp(m) EXCEPT !.parts = parts]

\* json.dump(entry, f_out, indent=2, default=serializer): the document
JsonDump(entry) ==
    [entry EXCEPT !.messages = [k \in 1..Len(entry.messages) |->
                                   DumpMessage(entry.messages[k])]]

LogsDirectory == <<"l", "o", "g", "s">>
JsonSuffix == <<".", "j", "s", "o", "n">>

\* LOG_DIR: Path('logs') in day5_evaluation, the LOGS_DIRECTORY of the
\* environment or 'logs' in day6_logs
LogDir(impl, env) ==
    IF impl = "day6" /\ env # <<>> THEN env ELSE LogsDirectory

\* log_interaction_to_file, lines 74-79: the timestamp of the file name
FirstMessageTimestamp(messages, now) ==
    LET ts == DictGet(messages[1], "timestamp", now)
    IN  IF messages = <<>> THEN now
        ELSE IF ts.type = "str" THEN FromIsoformat(ts.s) ELSE ts
LogTimestamp(messages, now) ==
    LET ts == DictGet(messages[Len(messages)], "timestamp", now)
    IN  IF messages = <<>> THEN now
        ELSE IF ts.type = "str" THEN FromIsoformat(ts.s) ELSE ts

\* log_interaction_to_file: the files after the call and the path returned
LogInteractionToFile(files, impl, env, agent, messages, source, now, random) ==
    LET entry == LogEntry(agent, messages, source)
        ts_str == Strftime(LogTimestamp(entry.messages, now))
        rand_hex == TokenHex(random)
        filename == agent.name \o <<"_">> \o ts_str \o <<"_">> \o rand_hex
                        \o JsonSuffix
        filepath == LogDir(impl, env) \o <<"/">> \o filename
    IN  [files |-> DictSet(files, filepath, JsonDump(entry)),
         exc |-> "none",
         ret |-> filepath]

\* a file that is not a JSON document
InvalidJson == [invalid_json |-> TRUE]

\* load_log_file: json.load and the 'log_file' field
LoadWithoutLogFile(files, log_file) ==
    IF log_file \notin DOMAIN files
    THEN [exc |-> "FileNotFoundError", ret |-> <<>>]
    ELSE IF files[log_file] = InvalidJson
    THEN [exc |-> "JSONDecodeError", ret |-> <<>>]
    ELSE [exc |-> "none", ret |-> files[log_file]]
LoadLogFile(files, log_file) ==
    IF log_file \notin DOMAIN files
    THEN [exc |-> "FileNotFoundError", ret |-> <<>>]
    ELSE IF files[log_file] = InvalidJson
    THEN [exc |-> "JSONDecodeError", ret |-> <<>>]
    ELSE [exc |-> "none", ret |-> DictSet(files[log_file], "log_file", log_file)]

\* ------------------------------------------------------------ evaluation
\* sub in s, for strings
Contains(sub, s) ==
    \E i \in 0..(Len(s) - Len(sub)) : SubSeq(s, i + 1, i + Len(sub)) = sub

\* analyze_existing_logs, lines 59-63: does the record pass the filters;
\* an absent filter (None or '') is the empty string, None for source
PassesFilters(log_record, agent_name, source) ==
    /\ agent_name = <<>> \/ Contains(agent_name, DictGet(log_record, "agent_name", <<>>))
    /\ source = None \/ DictGet(log_record, "source", None) = source

\* analyze_existing_logs, lines 54-68: the filter loop, from the k-th file
RECURSIVE FilterLogs(_, _, _, _, _)
FilterLogs(files, log_files, agent_name, source, k) ==
    IF k > Len(log_files) THEN [filtered_logs |-> <<>>, printed |-> <<>>]
    ELSE LET log_file == log_files[k]
             loaded == LoadLogFile(files, log_file)
             rest == FilterLogs(files, log_files, agent_name, source, k + 1)
         IN  IF loaded.exc # "none"
             THEN [rest EXCEPT !.printed =
                      <<[message |-> "Error loading", file |-> log_file]>> \o @]
             ELSE IF ~PassesFilters(loaded.ret, agent_name, source) THEN rest
             ELSE [rest EXCEPT !.filtered_logs = <<log_file>> \o @]

\* evaluate_log_record: the question and the answer are read from the first
\* part of the first and of the last message, then the evaluation agent
\* (llm: what its run does) judges the log
EvaluateLogRecord(log_record, llm) ==
    LET messages == log_record.messages
        first == messages[1]
        last == messages[Len(messages)]
    IN  IF messages = <<>> \/ first.parts = <<>> \/ last.parts = <<>>
        THEN [exc |-> "IndexError", ret |-> <<>>]
        ELSE IF "content" \notin DOMAIN first.parts[1]
                    \/ "content" \notin DOMAIN last.parts[1]
        THEN [exc |-> "KeyError", ret |-> <<>>]
        ELSE IF llm.exc # "none" THEN [exc |-> llm.exc, ret |-> <<>>]
        ELSE [exc |-> "none", ret |-> llm.ret]

\* the evaluation loop ended by the first log that fails
RECURSIVE EvaluateLogsUntilError(_, _, _, _)
EvaluateLogsUntilError(files, filtered_logs, llm, k) ==
    IF k > Len(filtered_logs) THEN [eval_results |-> <<>>, printed |-> <<>>]
    ELSE LET log_file == filtered_logs[k]
             loaded == LoadLogFile(files, log_file)
             result == EvaluateLogRecord(loaded.ret, llm[log_file])
             rest == EvaluateLogsUntilError(files, filtered_logs, llm, k + 1)
         IN  IF loaded.exc # "none" \/ result.exc # "none"
             THEN [eval_results |-> <<>>,
                   printed |-> <<[message |-> "Error evaluating", file |-> log_file]>>]
             ELSE [rest EXCEPT !.eval_results = <<<<loaded.ret, result.ret>>>> \o @]

\* analyze_existing_logs, lines 85-94: the evaluation loop, from the k-th
\* filtered file
RECURSIVE EvaluateLogs(_, _, _, _)
EvaluateLogs(files, filtered_logs, llm, k) ==
    IF k > Len(filtered_logs) THEN [eval_results |-> <<>>, printed |-> <<>>]
    ELSE LET log_file == filtered_logs[k]
             loaded == LoadLogFile(files, log_file)
             result == EvaluateLogRecord(loaded.ret, llm[log_file])
             rest == EvaluateLogs(files, filtered_logs, llm, k + 1)
             failed == [rest EXCEPT !.printed =
                           <<[message |-> "Error evaluating", file |-> log_file]>> \o @]
         IN  IF loaded.exc # "none" THEN failed
             ELSE IF result.exc # "none" THEN failed
             ELSE [rest EXCEPT !.eval_results = <<<<loaded.ret, result.ret>>>> \o @]

\* Path(p).name: what follows the last separator
RECURSIVE Basename(_)
Basename(path) ==
    IF path = <<>> \/ path[Len(path)] = "/" THEN <<>>
    ELSE Basename(SubSeq(path, 1, Len(path) - 1)) \o <<path[Len(path)]>>

\* {c.check_name: c.check_pass for c in eval_result.checklist}
ChecksDict(checklist) ==
    [name \in {checklist[k].check_name : k \in 1..Len(checklist)} |->
        LET last == CHOOSE k \in 1..Len(checklist) :
                        /\ checklist[k].check_name = name
                        /\ \A j \in (k + 1)..Len(checklist) :
                               checklist[j].check_name # name
        IN  checklist[last].check_pass]

\* calculate_metrics: one row per (log_record, eval_result)
CalculateMetrics(eval_results) ==
    [k \in 1..Len(eval_results) |->
        LET log_record == eval_results[k][1]
            messages == log_record.messages
        IN  DictUpdate([file |-> Basename(log_record.log_file),
                        question |-> messages[1].parts[1].content,
                        answer |-> messages[Len(messages)].parts[1].content],
                       ChecksDict(eval_results[k][2].checklist))]

\* the files log_dir.glob('*.json') can list
EndsWith(path, suffix) ==
    /\ Len(path) >= Len(suffix)
    /\ SubSeq(path, Len(path) - Len(suffix) + 1, Len(path)) = suffix
GlobJson(files) == {path \in DOMAIN files : EndsWith(path, JsonSuffix)}

ReportFile == LogsDirectory \o <<"/">> \o
    <<"e", "v", "a", "l", "u", "a", "t", "i", "o", "n", "_",
      "r", "e", "p", "o", "r", "t", ".", "c", "s", "v">>

\* analyze_existing_logs: what it printed about files, the logs it
\* evaluated, the report it saved and the files after the call; log_files
\* is what log_dir.glob('*.json') lists, api_key whether OPENAI_API_KEY is
\* set
AnalyzeExistingLogs(files, log_files, api_key, agent_name, source, llm) ==
    LET f == FilterLogs(files, log_files, agent_name, source, 1)
        e == EvaluateLogs(files, f.filtered_logs, llm, 1)
        report == CalculateMetrics(e.eval_results)
        Return(printed, filtered) ==
            [files |-> files, printed |-> printed, filtered_logs |-> filtered,
             evaluated |-> <<>>, report |-> <<>>, saved |-> FALSE]
    IN  IF ~api_key THEN Return(<<>>, <<>>)
        ELSE IF log_files = <<>> THEN Return(<<>>, <<>>)
        ELSE IF f.filtered_logs = <<>> THEN Return(f.printed, <<>>)
        ELSE IF e.eval_results = <<>>
        THEN Return(f.printed \o e.printed, f.filtered_logs)
        ELSE [files |-> DictSet(files, ReportFile, report),
              printed |-> f.printed \o e.printed,
              filtered_logs |-> f.filtered_logs,
              evaluated |-> [k \in 1..Len(e.eval_results) |->
                                e.eval_results[k][1].log_file],
              report |-> report,
              saved |-> TRUE]

\* ------------------------------------------------------------ ingestion
\* the defaults of chunk_documents and of index_data
DefaultSize == 2000
DefaultStep == 1000
DefaultChunkingParams == [size |-> DefaultSize, step |-> DefaultStep]

\* filter(doc): a filter is [kind |-> "contains", sub |-> s], the filter of
\* initialize_index, `s in doc['filename']', or [kind |-> "raises"], a
\* filter that raises
CallFilter(filter, doc) ==
    IF filter.kind = "raises" THEN [exc |-> "KeyError", ret |-> FALSE]
    ELSE [exc |-> "none", ret |-> Contains(filter.sub, doc.filename)]

\* [doc for doc in docs if filter(doc)]
KeepAllDocs(docs, filter) == [exc |-> "none", docs |-> docs]
FilterDocs(docs, filter) ==
    LET Keep(doc) == CallFilter(filter, doc).ret
    IN  IF \E k \in 1..Len(docs) : CallFilter(filter, docs[k]).exc # "none"
        THEN [exc |-> "KeyError", docs |-> <<>>]
        ELSE [exc |-> "none", docs |-> SelectSeq(docs, Keep)]

\* chunk_documents(docs, **chunking_params): a parameter that is not given
\* takes the default of chunk_documents
ChunkWithParams(docs, chunking_params) ==
    LET r == ChunkDocuments(docs, [k \in 1..Len(docs) |-> k],
                            DictGet(chunking_params, "size", DefaultSize),
                            DictGet(chunking_params, "step", DefaultStep))
    IN  [exc |-> r.exc, docs |-> r.chunks]

\* Index(text_fields=["content", "filename"])
NewIndex == [text_fields |-> <<"content", "filename">>, docs |-> <<>>, fits |-> 0]

\* index.fit(docs)
Fit(index, docs) == [index EXCEPT !.docs = docs, !.fits = @ + 1]

\* ------------------------------------------- specification: sliding_window
SwAlphabet == {"a", "b"}

SwIdle ==
    /\ swImpl = "none"
    /\ swSeq = <<>>
    /\ swSize = 1
    /\ swStep = 1
    /\ swOut = NoOutcome

SwInit ==
    /\ swImpl = "none"
    /\ swSeq \in Strings(SwAlphabet, MaxLen)
    /\ swSize \in -1..MaxSize
    /\ swStep \in -1..MaxStep
    /\ swOut = NoOutcome

CallDay2SlidingWindow ==
    /\ swImpl = "none"
    /\ swImpl' = "day2"
    /\ swOut' = Day2SlidingWindow(swSeq, swSize, swStep)
    /\ UNCHANGED <<swSeq, swSize, swStep>>
    /\ UNCHANGED exceptSw

CallDay6SlidingWindow ==
    /\ swImpl = "none"
    /\ swImpl' = "day6"
    /\ swOut' = Day6SlidingWindow(swSeq, swSize, swStep)
    /\ UNCHANGED <<swSeq, swSize, swStep>>
    /\ UNCHANGED exceptSw

\* ---------------------------------------- specification: document chunkers
DocAlphabet == {"#", " ", "\n", "a"}

\* a frontmatter value under the key 'start'
MetaStart == 7

\* the metadata every parsed document of a repository carries besides its
\* content: its file name and, in some repositories, a frontmatter key
MetaVariants ==
    {[filename |-> "a.md"], [filename |-> "a.md", start |-> MetaStart]}

\* a document: its metadata and, unless the key is missing, its content
DocsOfLen(n, meta) ==
    {DictSet(meta, "content", c) : c \in [1..n -> DocAlphabet]}
        \cup (IF n = 0 THEN {meta} ELSE {})

ContentLen(doc) == IF "content" \in DOMAIN doc THEN Len(doc.content) ELSE 0

\* the lists of n documents with at most `budget' characters of content
RECURSIVE DocLists(_, _, _)
DocLists(n, budget, meta) ==
    IF n = 0 THEN {<<>>}
    ELSE UNION {{<<d>> \o rest :
                    rest \in DocLists(n - 1, budget - ContentLen(d), meta)} :
                   d \in UNION {DocsOfLen(len, meta) : len \in 0..budget}}

\* what llm_func does with one prompt
LlmResponses == {<<"a", "-", "-", "-", " ", "-", "-", "-", "a", "\n">>}
LlmOutcomes ==
    {[exc |-> "Exception", response |-> <<>>]}
        \cup {[exc |-> "none", response |-> r] : r \in LlmResponses}

NoCall == [fn |-> "none"]

DocIdle ==
    /\ docHeap = <<>>
    /\ documents = <<>>
    /\ docCall = NoCall
    /\ docOut = NoOutcome

DocInit ==
    /\ docHeap \in UNION {DocLists(n, MaxTotalLen, meta) :
                               n \in 0..MaxDocs, meta \in MetaVariants}
    /\ documents = [k \in 1..Len(docHeap) |-> k]
    /\ docCall = NoCall
    /\ docOut = NoOutcome

\* the document chunker a call names, run on the heap h
RunChunker(call, h, docs) ==
    CASE call.fn = "chunk_documents_sliding_window" ->
             ChunkDocumentsSlidingWindow(h, docs, call.size, call.step)
      [] call.fn = "chunk_documents_by_sections" ->
             ChunkDocumentsBySections(h, docs, call.level)
      [] call.fn = "chunk_documents_by_paragraphs" ->
             ChunkDocumentsByParagraphs(h, docs)
      [] call.fn = "chunk_documents_intelligent" ->
             ChunkDocumentsIntelligent(h, docs, call.llm)
      [] call.fn = "chunk_documents" ->
             ChunkDocuments(h, docs, call.size, call.step)

\* a call's effect: what it left on the caller's heap, and its outcome
DocReturn(call) ==
    LET r == RunChunker(call, docHeap, documents)
    IN  /\ docCall' = call
        /\ docHeap' = ReleaseLocals(r.heap, Len(docHeap))
        /\ docOut' = [exc |-> r.exc, chunks |-> r.chunks,
                      printed |-> DictGet(r, "printed", <<>>)]
        /\ UNCHANGED documents
        /\ UNCHANGED exceptDoc

CallChunkDocumentsSlidingWindow ==
    /\ docCall = NoCall
    /\ \E size \in 0..MaxChunkSize, step \in 1..MaxChunkStep :
          DocReturn([fn |-> "chunk_documents_sliding_window",
                     size |-> size, step |-> step])

CallChunkDocumentsBySections ==
    /\ docCall = NoCall
    /\ \E level \in 1..MaxLevel :
          DocReturn([fn |-> "chunk_documents_by_sections", level |-> level])

CallChunkDocumentsByParagraphs ==
    /\ docCall = NoCall
    /\ DocReturn([fn |-> "chunk_documents_by_paragraphs"])

CallChunkDocumentsIntelligent ==
    /\ docCall = NoCall
    /\ \E llm \in [1..Len(documents) -> LlmOutcomes] :
          DocReturn([fn |-> "chunk_documents_intelligent", llm |-> llm])

CallChunkDocuments ==
    /\ docCall = NoCall
    /\ \E size \in 0..MaxChunkSize, step \in 1..MaxChunkStep :
          DocReturn([fn |-> "chunk_documents", size |-> size, step |-> step])

\* the caller makes the same call a second time, with the list and the
\* documents as the first call left them
CallSameChunkerAgain ==
    /\ docCall # NoCall
    /\ DocReturn(docCall)

\* ---------------------------------------------- specification: QueryTool
\* the tables a CSV file can hold: an object column g, numeric columns x, y
Schemas ==
    {[columns |-> <<"g", "x">>, dtypes |-> [g |-> "object", x |-> "number"],
      cells |-> [g : {"p", "q"}, x : {1, 2}]],
     [columns |-> <<"x", "y">>, dtypes |-> [x |-> "number", y |-> "number"],
      cells |-> [x : {1, 2}, y : {3}]],
     [columns |-> <<"g">>, dtypes |-> [g |-> "object"],
      cells |-> [g : {"p", "q"}]]}

\* pd.read_csv: the columns of a file without rows are object columns
ReadCsv(schema, rows) ==
    [columns |-> schema.columns,
     dtypes |-> IF rows = <<>> THEN [c \in DOMAIN schema.dtypes |-> "object"]
                ELSE schema.dtypes,
     rows |-> rows,
     index |-> <<>>]

CsvFiles ==
    UNION {{ReadCsv(schema, rows) :
               rows \in UNION {[1..n -> schema.cells] : n \in 0..MaxRows}} :
           schema \in Schemas}

Num(n) == [kind |-> "number", v |-> n]
Str(t) == [kind |-> "str", v |-> t]
Eq(v) == [kind |-> "eq", val |-> v]
Ops(ops) == [kind |-> "ops", ops |-> ops]

\* the filters argument, a dictionary in insertion order
FilterArgs ==
    {<<>>,
     <<<<"g", Eq(Str("p"))>>>>,
     <<<<"g", Eq(Num(1))>>>>,
     <<<<"x", Ops(<<<<">", Num(1)>>>>)>>>>,
     <<<<"x", Ops(<<<<">=", Num(1)>>, <<"!=", Num(2)>>>>)>>>>,
     <<<<"g", Eq(Str("q"))>>, <<"x", Ops(<<<<"<=", Num(1)>>>>)>>>>,
     <<<<"zz", Eq(Num(1))>>, <<"x", Eq(Num(2))>>>>,
     <<<<"x", Ops(<<<<"<", Str("p")>>>>)>>>>,
     <<<<"x", Ops(<<<<"in", Num(1)>>, <<"<", Num(2)>>>>)>>>>}

ChartFilterArgs ==
    {<<>>,
     <<<<"x", Ops(<<<<"==", Num(1)>>>>)>>>>,
     <<<<"x", Ops(<<<<">", Str("p")>>>>)>>>>}

TableNames == {"sales", "users"}
LoadedNames == {"sales"}
ColumnArgs == {<<>>, <<"x">>, <<"g", "zz">>}
AggregationArgs == {None, "sum", "mean", "count", "max", "min", "median"}
GroupByArgs == {<<>>, <<"g">>, <<"zz">>}
LimitArgs == (-1)..MaxLimit
ChartTypeArgs == {"bar", "pie", "histogram", "area"}

QNoOutcome == [exc |-> "none", type |-> "none", ret |-> <<>>]

QIdle ==
    /\ dataframes = <<>>
    /\ qCall = NoCall
    /\ qOut = QNoOutcome

\* DataLoader.__init__: no table is loaded
QInit == QIdle

\* DataLoader.load_csv
LoadCsv ==
    /\ qCall = NoCall
    /\ \E table_name \in LoadedNames, df \in CsvFiles :
           dataframes' = DictSet(dataframes, table_name, df)
    /\ UNCHANGED <<qCall, qOut>>
    /\ UNCHANGED exceptQ

CallQueryData ==
    /\ qCall = NoCall
    /\ \E table_name \in TableNames, columns \in ColumnArgs,
          filters \in FilterArgs, aggregation \in AggregationArgs,
          group_by \in GroupByArgs, limit \in LimitArgs :
           /\ qCall' = [fn |-> "query_data", table_name |-> table_name,
                        columns |-> columns, filters |-> filters,
                        aggregation |-> aggregation, group_by |-> group_by,
                        limit |-> limit]
           /\ qOut' = QueryData(dataframes, table_name, columns, filters,
                                aggregation, group_by, limit)
    /\ UNCHANGED dataframes
    /\ UNCHANGED exceptQ

CallCreateChart ==
    /\ qCall = NoCall
    /\ \E table_name \in TableNames, chart_type \in ChartTypeArgs,
          x_column \in {None, "g", "zz"}, y_column \in {None, "x", "g", "zz"},
          group_by \in {None, "g"}, aggregation \in {None, "sum", "mean"},
          filters \in ChartFilterArgs, title \in {None, "T"} :
           /\ qCall' = [fn |-> "create_chart", table_name |-> table_name,
                        chart_type |-> chart_type, x_column |-> x_column,
                        y_column |-> y_column, group_by |-> group_by,
                        aggregation |-> aggregation, filters |-> filters,
                        title |-> title]
           /\ qOut' = CreateChart(dataframes, table_name, chart_type, x_column,
                                  y_column, group_by, aggregation, filters, title)
    /\ UNCHANGED dataframes
    /\ UNCHANGED exceptQ

\* ------------------------------------------------ specification: logging
MaxLogFiles == 2

\* timestamps of messages (pydantic_ai stamps them in UTC) and the clock
MessageTime == Datetime(2024, 1, 5, 9, 3, 7, 0, "utc")
LaterMessageTime == Datetime(2025, 12, 31, 23, 59, 58, 5, "utc")
ClockTime == Datetime(2026, 2, 3, 4, 5, 6, 0, "naive")

UserPrompt(ts) == [part_kind |-> "user-prompt", content |-> "q", timestamp |-> ts]
TextPart == [part_kind |-> "text", content |-> "a"]
Request == [kind |-> "request", parts |-> <<UserPrompt(MessageTime)>>]
Response(ts) == [kind |-> "response", parts |-> <<TextPart>>, timestamp |-> ts]

\* the messages of an interaction, as ModelMessagesTypeAdapter.dump_python
\* gives them: a request has no timestamp of its own, a response has one,
\* a datetime or (dumped for JSON) its ISO string
MessageLists ==
    {<<>>,
     <<Request>>,
     <<Request, Response(LaterMessageTime)>>,
     <<Request, Response(StrValue(Isoformat(LaterMessageTime)))>>,
     <<Response(MessageTime), Request>>,
     <<Response(MessageTime), Response(LaterMessageTime)>>}

LogAgents ==
    {[name |-> name, instructions |-> "s", system |-> "openai",
      model_name |-> "m", toolsets |-> toolsets] :
         name \in {<<"f">>, <<"f", "2">>},
         toolsets \in {<<>>, <<<<"search">>, <<"fetch">>>>}}

LogEnvs ==
    {[impl |-> "day5", env |-> <<>>, agent |-> agent] : agent \in LogAgents}
        \cup {[impl |-> "day6", env |-> env, agent |-> agent] :
                 env \in {<<>>, <<"o">>}, agent \in LogAgents}

RandomBytes == {<<0, 171, 63>>, <<192, 255, 238>>}
Sources == {"user", "ai-generated"}
MissingFile == LogsDirectory \o <<"/", "x">>

LogNoOutcome == [exc |-> "none", ret |-> <<>>]

LogIdle ==
    /\ logEnv = [impl |-> "none"]
    /\ logFiles = <<>>
    /\ logCall = NoCall
    /\ logOut = LogNoOutcome

\* the module is imported: LOG_DIR exists and holds no file yet
LogInit ==
    /\ logEnv \in LogEnvs
    /\ logFiles = <<>>
    /\ logCall = NoCall
    /\ logOut = LogNoOutcome

CallLogInteractionToFile ==
    /\ Cardinality(DOMAIN logFiles) < MaxLogFiles
    /\ \E messages \in MessageLists, source \in Sources, random \in RandomBytes :
           LET r == LogInteractionToFile(logFiles, logEnv.impl, logEnv.env,
                                         logEnv.agent, messages, source,
                                         ClockTime, random)
           IN  /\ logCall' = [fn |-> "log_interaction_to_file",
                              messages |-> messages, source |-> source,
                              now |-> ClockTime]
               /\ logFiles' = r.files
               /\ logOut' = [exc |-> r.exc, ret |-> r.ret]
    /\ UNCHANGED logEnv
    /\ UNCHANGED exceptLog

CallLoadLogFile ==
    /\ \E log_file \in DOMAIN logFiles \cup {MissingFile} :
           /\ logCall' = [fn |-> "load_log_file", log_file |-> log_file]
           /\ logOut' = LoadLogFile(logFiles, log_file)
    /\ UNCHANGED <<logEnv, logFiles>>
    /\ UNCHANGED exceptLog

\* ------------------------------------------- specification: log analysis
LogFileNames == <<"a", "b", "c", "d">>
LogPaths ==
    {LogsDirectory \o <<"/", LogFileNames[k]>> \o JsonSuffix : k \in 1..MaxLogFiles}

\* what a log file can hold: a logged interaction, one without messages,
\* one without an agent name, or no JSON document at all
LoggedInteraction(name, source) ==
    JsonDump(LogEntry([name |-> name, instructions |-> "s", system |-> "openai",
                       model_name |-> "m", toolsets |-> <<>>],
                      <<Request, Response(LaterMessageTime)>>, source))
WithoutKey(d, key) == [k \in DOMAIN d \ {key} |-> d[k]]
LogContents ==
    {LoggedInteraction(<<"f">>, "user"),
     LoggedInteraction(<<"f", "2">>, "ai-generated"),
     [LoggedInteraction(<<"f">>, "user") EXCEPT !.messages = <<>>],
     WithoutKey(LoggedInteraction(<<"f", "2">>, "user"), "agent_name"),
     InvalidJson}

LogDirectories ==
    UNION {[paths -> LogContents] : paths \in SUBSET LogPaths}

\* what a run of the evaluation agent does
Checklist ==
    [checklist |-> <<[check_name |-> "answer_clear", check_pass |-> TRUE],
                     [check_name |-> "completeness", check_pass |-> FALSE]>>,
     summary |-> "ok"]
EvaluationRuns ==
    {[exc |-> "none", ret |-> Checklist], [exc |-> "ModelHTTPError", ret |-> <<>>]}

\* the orders in which glob can list a set of files
Listings(paths) ==
    {q \in [1..Cardinality(paths) -> paths] : SeqToSet(q) = paths}

InitAnalysis ==
    /\ logEnv \in {[impl |-> "day5", api_key |-> api_key] : api_key \in BOOLEAN}
    /\ logFiles \in LogDirectories
    /\ logCall = NoCall
    /\ logOut = LogNoOutcome

CallAnalyzeExistingLogs ==
    /\ logCall = NoCall
    /\ \E log_files \in Listings(GlobJson(logFiles)),
          agent_name \in {<<>>, <<"f">>, <<"2">>},
          source \in {None, "user"},
          llm \in [GlobJson(logFiles) -> EvaluationRuns] :
           LET r == AnalyzeExistingLogs(logFiles, log_files, logEnv.api_key,
                                        agent_name, source, llm)
           IN  /\ logCall' = [fn |-> "analyze_existing_logs",
                              files |-> logFiles, log_files |-> log_files,
                              agent_name |-> agent_name, source |-> source,
                              llm |-> llm]
               /\ logFiles' = r.files
               /\ logOut' = [exc |-> "none", ret |-> WithoutKey(r, "files")]
    /\ UNCHANGED logEnv
    /\ UNCHANGED exceptLog

\* ---------------------------------------------- specification: ingestion
MaxRepoDocs == 2

DataEngineering ==
    <<"d", "a", "t", "a", "-", "e", "n", "g", "i", "n", "e", "e", "r", "i", "n", "g">>

\* the markdown files of a repository, as read_repo_data parses them
RepoDocs ==
    {[filename |-> filename, content |-> content] :
        filename \in {DataEngineering \o <<"/", "a", ".", "m", "d">>,
                      <<"b", ".", "m", "d">>},
        content \in {<<>>, <<"a", "b">>, <<"a", "b", "c">>}}
Repositories == UNION {[1..n -> RepoDocs] : n \in 0..MaxRepoDocs}

FilterArgsOfIndexData ==
    {[kind |-> "none"], [kind |-> "contains", sub |-> DataEngineering],
     [kind |-> "raises"]}
ChunkingParamsArgs ==
    {[none |-> TRUE], [size |-> 2, step |-> 1], [size |-> 2], [size |-> 0, step |-> 1]}

IngIdle ==
    /\ ingPc = "idle"
    /\ ingArgs = <<>>
    /\ ingDocs = <<>>
    /\ ingIndex = <<>>
    /\ ingTrace = <<>>

IngInit == IngIdle

\* a call of index_data
CallIndexData ==
    /\ ingPc = "idle"
    /\ \E filter \in FilterArgsOfIndexData, chunk \in BOOLEAN,
          chunking_params \in ChunkingParamsArgs :
           ingArgs' = [caller |-> "none", filter |-> filter, chunk |-> chunk,
                       chunking_params |-> chunking_params]
    /\ ingPc' = "download"
    /\ UNCHANGED <<ingDocs, ingIndex, ingTrace>>
    /\ UNCHANGED exceptIng

\* initialize_index: index_data(REPO_OWNER, REPO_NAME, filter=filter)
CallInitializeIndex ==
    /\ ingPc = "idle"
    /\ ingArgs' = [caller |-> "initialize_index",
                   filter |-> [kind |-> "contains", sub |-> DataEngineering],
                   chunk |-> FALSE, chunking_params |-> [none |-> TRUE]]
    /\ ingPc' = "download"
    /\ UNCHANGED <<ingDocs, ingIndex, ingTrace>>
    /\ UNCHANGED exceptIng

\* index_data, line 138: read_repo_data returns the documents of the
\* repository or raises when the download fails
Download ==
    /\ ingPc = "download"
    /\ \/ \E repository \in Repositories :
              /\ ingDocs' = repository
              /\ ingPc' = "filter"
              /\ ingTrace' = Append(ingTrace, [stage |-> "download", docs |-> repository])
       \/ /\ ingPc' = "raised"
          /\ ingTrace' = Append(ingTrace, [stage |-> "download", docs |-> <<>>])
          /\ UNCHANGED ingDocs
    /\ UNCHANGED <<ingArgs, ingIndex>>
    /\ UNCHANGED exceptIng

\* index_data, lines 141-142
Filter ==
    /\ ingPc = "filter"
    /\ IF ingArgs.filter.kind = "none"
       THEN /\ ingPc' = "chunk"
            /\ UNCHANGED <<ingDocs, ingTrace>>
       ELSE LET r == FilterDocs(ingDocs, ingArgs.filter)
            IN  /\ ingTrace' = Append(ingTrace, [stage |-> "filter", docs |-> ingDocs])
                /\ ingDocs' = r.docs
                /\ ingPc' = IF r.exc = "none" THEN "chunk" ELSE "raised"
    /\ UNCHANGED <<ingArgs, ingIndex>>
    /\ UNCHANGED exceptIng

\* index_data, lines 145-148
Chunk ==
    /\ ingPc = "chunk"
    /\ IF ~ingArgs.chunk
       THEN /\ ingPc' = "index"
            /\ UNCHANGED <<ingDocs, ingTrace>>
       ELSE LET chunking_params ==
                    IF ingArgs.chunking_params = [none |-> TRUE]
                    THEN DefaultChunkingParams ELSE ingArgs.chunking_params
                r == ChunkWithParams(ingDocs, chunking_params)
            IN  /\ ingTrace' = Append(ingTrace,
                                      [stage |-> "chunk", docs |-> ingDocs,
                                       params |-> chunking_params])
                /\ ingDocs' = r.docs
                /\ ingPc' = IF r.exc = "none" THEN "index" ELSE "raised"
    /\ UNCHANGED <<ingArgs, ingIndex>>
    /\ UNCHANGED exceptIng

\* index_data, lines 151-156
BuildIndex ==
    /\ ingPc = "index"
    /\ ingIndex' = Fit(NewIndex, ingDocs)
    /\ ingTrace' = Append(ingTrace, [stage |-> "index", docs |-> ingDocs])
    /\ ingPc' = "returned"
    /\ UNCHANGED <<ingArgs, ingDocs>>
    /\ UNCHANGED exceptIng

\* ----------------------------------------- specification: data-explorer chat
MaxQuestions == 3

\* what the user types into st.chat_input
Prompts == {"How many rows are in the dataset?", "Show me sales by category"}

\* st.write_stream's return value, and st.session_state._last_response as
\* stream_response leaves it (None: not set)
ResponseTexts == {"", " ", "42 rows"}
LastResponses == {None, "", "42 rows", "Error: stream failed"}

AgentNotAvailable == "Agent not available. Please set OPENAI_API_KEY."
CouldNotGenerate == "I couldn't generate a response."
EncounteredError == "Sorry, I encountered an error"

\* `text and text.strip()'
NotBlank(text) == text \notin {None, "", " "}

\* response_text at the end of `with st.chat_message("assistant")', given
\* the agent and what the try block did
ResponseText(agent, exc, streamed) ==
    IF ~agent THEN AgentNotAvailable
    ELSE LET response_text == IF exc # "none" THEN EncounteredError ELSE streamed
         IN  IF NotBlank(response_text) THEN response_text ELSE CouldNotGenerate

\* response_to_save
ResponseToSave(final_text, response_text) ==
    IF NotBlank(final_text) THEN final_text
    ELSE IF NotBlank(response_text) THEN response_text
    ELSE CouldNotGenerate

\* the history after the response is saved
SaveResponse(history, response_to_save) ==
    IF Len(history) = 0 \/ history[Len(history)].role # "assistant"
    THEN Append(history, [role |-> "assistant", content |-> response_to_save])
    ELSE [history EXCEPT ![Len(history)].content = response_to_save]

\* needs_response of the pending-message block
NeedsResponse(history, is_processing) ==
    /\ history # <<>>
    /\ history[Len(history)].role = "user"
    /\ ~(Len(history) > 1 /\ history[Len(history) - 1].role = "assistant")
    /\ ~is_processing

\* the messages that precede the current one
ConversationHistory(session_messages) ==
    SubSeq(session_messages, 1, Len(session_messages) - 1)

HistoryWindow == 10

\* conversation_history (all of it)
WholeHistory(conversation_history) == conversation_history

\* conversation_history[-10:]
RecentHistory(conversation_history) ==
    SubSeq(conversation_history, Max(Len(conversation_history) - HistoryWindow, 0) + 1, Len(conversation_history))

PreviousConversation == "\n\nPrevious conversation:\n"
CurrentQuestion == "\n\nCurrent question: "
NoPrompt == <<>>

\* context_parts: one f-string per message of role user or assistant,
\* kept as the label and the content
ContextParts(recent_history) ==
    LET labelled == SelectSeq(recent_history, LAMBDA msg : msg.role \in {"user", "assistant"})
    IN  [i \in 1..Len(labelled) |->
            <<IF labelled[i].role = "user" THEN "User: " ELSE "Assistant: ", labelled[i].content>>]

\* "\n".join(context_parts), piece by piece
RECURSIVE JoinParts(_, _)
JoinParts(context_parts, k) ==
    IF k > Len(context_parts) THEN <<>>
    ELSE (IF k = 1 THEN <<>> ELSE <<"\n">>) \o context_parts[k] \o JoinParts(context_parts, k + 1)

\* context_prompt of stream_response: the pieces the string is made of
ContextPrompt(prompt, conversation_history) ==
    IF Len(conversation_history) = 0 THEN <<prompt>>
    ELSE LET context_parts == ContextParts(RecentHistory(conversation_history))
         IN  IF Len(context_parts) = 0 THEN <<prompt>>
             ELSE <<PreviousConversation>> \o JoinParts(context_parts, 1) \o <<CurrentQuestion, prompt>>

\* the chart parameters stream_response finds in the tool calls, and the
\* ones the fallback builders make from the question
ToolCharts == {None, "chart of the tool"}
FallbackCharts == {None, "chart of the question"}

\* a session attribute after stream_response, which may have set it
AfterStream(session_value, set_value) ==
    IF set_value = None THEN session_value ELSE set_value

\* chart_params when the display is reached
ChartParams(session_chart, exc, fallback_chart) ==
    IF session_chart # None THEN session_chart
    ELSE IF exc # "none" THEN None
    ELSE fallback_chart

\* _last_chart_params left where it is
KeepChartParams(session_chart, chart_params) == session_chart

\* _last_chart_params after `if chart_params: ... finally: del'
ChartParamsAfterDisplay(session_chart, chart_params) ==
    IF chart_params # None THEN None ELSE session_chart

turnVars == <<lastResponse, lastChartParams, chartShown, agentPrompt>>

Questions == Len(SelectSeq(chatMessages, LAMBDA m : m.role = "user"))

ChatIdle ==
    /\ loadedTables = FALSE
    /\ chatMessages = <<>>
    /\ processing = FALSE
    /\ chatPc = "idle"
    /\ lastResponse = None
    /\ lastChartParams = None
    /\ chartShown = None
    /\ agentPrompt = NoPrompt

ChatInit == ChatIdle

\* the sidebar loads an uploaded CSV file and calls st.rerun()
UploadCsv ==
    /\ chatPc = "idle"
    /\ ~loadedTables
    /\ loadedTables' = TRUE
    /\ chatPc' = "rerun"
    /\ UNCHANGED <<chatMessages, processing, turnVars>>
    /\ UNCHANGED exceptChat

\* the user submits a prompt: the run that receives it appends the user
\* message and calls st.rerun()
SubmitPrompt ==
    /\ chatPc = "idle"
    /\ loadedTables
    /\ Questions < MaxQuestions
    /\ \E prompt \in Prompts :
          chatMessages' = Append(chatMessages,
                                 [role |-> "user", content |-> prompt])
    /\ chatPc' = "rerun"
    /\ UNCHANGED <<loadedTables, processing, turnVars>>
    /\ UNCHANGED exceptChat

\* a run of the script without a prompt, up to the generation of a response
RunScript ==
    /\ chatPc = "rerun"
    /\ IF loadedTables /\ NeedsResponse(chatMessages, processing)
       THEN processing' = TRUE /\ chatPc' = "responding"
       ELSE processing' = processing /\ chatPc' = "idle"
    /\ UNCHANGED <<loadedTables, chatMessages, turnVars>>
    /\ UNCHANGED exceptChat

\* the rest of that run: stream_response builds the prompt and leaves
\* _last_response and _last_chart_params, the chart is displayed, the
\* response is saved, _last_response and the processing flag are deleted and
\* st.rerun() is called. The statements of the try block that can raise
\* (the fallback chart builders) run only when no chart parameters were found
GenerateResponse ==
    /\ chatPc = "responding"
    /\ \E agent \in BOOLEAN, exc \in {"none", "Exception"}, streamed \in ResponseTexts, last_response \in LastResponses, tool_chart \in ToolCharts, fallback_chart \in FallbackCharts :
          LET last_user_msg == chatMessages[Len(chatMessages)].content
              session_response == IF agent THEN AfterStream(lastResponse, last_response) ELSE lastResponse
              session_chart == IF agent THEN AfterStream(lastChartParams, tool_chart) ELSE lastChartParams
              chart_params == IF agent THEN ChartParams(session_chart, exc, fallback_chart) ELSE None
              response_text == ResponseText(agent, exc, streamed)
          IN  /\ agent /\ session_chart # None => exc = "none"
              /\ agentPrompt' = IF agent THEN ContextPrompt(last_user_msg, ConversationHistory(chatMessages)) ELSE NoPrompt
              /\ chartShown' = chart_params
              /\ lastChartParams' = ChartParamsAfterDisplay(session_chart, chart_params)
              /\ chatMessages' = SaveResponse(chatMessages, ResponseToSave(session_response, response_text))
    /\ lastResponse' = None
    /\ processing' = FALSE
    /\ chatPc' = "rerun"
    /\ UNCHANGED loadedTables
    /\ UNCHANGED exceptChat

\* the sessions in which a question waits for its response: the first
\* question alone, or a history of one answered question and `rounds' times
\* two questions and the response to the second, then two questions
MaxRounds == 3

PendingRoles(rounds) ==
    [i \in 1..(3 * rounds + 4) |->
        IF i = 2 \/ (i > 2 /\ i <= 3 * rounds + 2 /\ (i - 2) % 3 = 0)
        THEN "assistant" ELSE "user"]

PendingSessions ==
    {<<[role |-> "user", content |-> q]>> : q \in Prompts}
    \cup UNION {{[i \in 1..(3 * rounds + 4) |->
                    [role |-> PendingRoles(rounds)[i],
                     content |-> IF PendingRoles(rounds)[i] = "user"
                                 THEN c[i] ELSE "42 rows"]] :
                 c \in [1..(3 * rounds + 4) -> Prompts]} :
               rounds \in 0..MaxRounds}

\* a run of the script is due in a session whose last question waits
PendingInit ==
    /\ loadedTables = TRUE
    /\ chatMessages \in PendingSessions
    /\ processing = FALSE
    /\ chatPc = "rerun"
    /\ lastResponse = None
    /\ lastChartParams = None
    /\ chartShown = None
    /\ agentPrompt = NoPrompt

\* ------------------------------------------ specification: SimpleSearchIndex
MaxIndexDocs == 3
MaxContentLen == 2
MaxQueryLen == 2
MaxNumResults == 2

\* str.lower() on the characters of the index
UpperCase == <<"A", "B", "O", "P", "S", "T">>
LowerCase == <<"a", "b", "o", "p", "s", "t">>
LowerChar(c) ==
    IF \E k \in 1..Len(UpperCase) : UpperCase[k] = c
    THEN LowerCase[CHOOSE k \in 1..Len(UpperCase) : UpperCase[k] = c]
    ELSE c
Lower(s) == [k \in 1..Len(s) |-> LowerChar(s[k])]

\* the loop of SimpleSearchIndex.search from document k on
RECURSIVE SearchLoop(_, _, _, _, _)
SearchLoop(docs, query_lower, num_results, k, results) ==
    IF k > Len(docs) THEN results
    ELSE LET doc == docs[k]
             content == Lower(DictGet(doc, "content", <<>>))
             title == Lower(DictGet(doc, "title", <<>>))
         IN  IF Contains(query_lower, content) \/ Contains(query_lower, title)
             THEN IF Len(results) + 1 >= num_results
                  THEN Append(results, doc)
                  ELSE SearchLoop(docs, query_lower, num_results, k + 1,
                                  Append(results, doc))
             ELSE SearchLoop(docs, query_lower, num_results, k + 1, results)

\* SimpleSearchIndex.search
Search(docs, query, num_results) ==
    SearchLoop(docs, Lower(query), num_results, 1, <<>>)

\* text_search
TextSearchResults == 5
TextSearch(query, docs) == Search(docs, query, TextSearchResults)

SearchAlphabet == {"a", "A", "b"}
IndexedDocs ==
    {[content |-> c] : c \in Strings(SearchAlphabet, MaxContentLen)}
        \cup {[title |-> <<"A">>],
              [content |-> <<"b">>, title |-> <<"a", "b">>]}
Queries == Strings(SearchAlphabet, MaxQueryLen)

SearchIdle ==
    /\ indexDocs = <<>>
    /\ searchCall = NoCall
    /\ searchOut = [exc |-> "none", results |-> <<>>]

\* SimpleSearchIndex(documents)
SearchInit ==
    /\ indexDocs \in UNION {[1..n -> IndexedDocs] : n \in 0..MaxIndexDocs}
    /\ searchCall = NoCall
    /\ searchOut = [exc |-> "none", results |-> <<>>]

CallSearch ==
    /\ searchCall = NoCall
    /\ \E query \in Queries, num_results \in 0..MaxNumResults :
          /\ searchCall' = [fn |-> "search", query |-> query,
                            num_results |-> num_results]
          /\ searchOut' = [exc |-> "none",
                           results |-> Search(indexDocs, query, num_results)]
    /\ UNCHANGED indexDocs
    /\ UNCHANGED exceptSearch

CallTextSearch ==
    /\ searchCall = NoCall
    /\ \E query \in Queries :
          /\ searchCall' = [fn |-> "text_search", query |-> query,
                            num_results |-> TextSearchResults]
          /\ searchOut' = [exc |-> "none",
                           results |-> TextSearch(query, indexDocs)]
    /\ UNCHANGED indexDocs
    /\ UNCHANGED exceptSearch

\* ------------------------------------ specification: split_markdown_by_level
MaxTextLen == 5
MaxLines == 4

\* lines of a markdown text: headers of three levels, text, and lines that
\* only look like headers
MarkdownLines ==
    {<<"#", " ", "a">>, <<"#", "#", " ", "a">>, <<"#", "#", "#", " ", "a">>,
     <<"a">>, <<>>, <<"#", "a">>, <<" ", "#", " ", "a">>, <<"#", " ">>,
     <<"#", " ", " ">>, <<"#", " ", "a", " ">>}

\* '\n'.join(lines)
RECURSIVE JoinLines(_)
JoinLines(lines) ==
    IF lines = <<>> THEN <<>>
    ELSE IF Len(lines) = 1 THEN lines[1]
    ELSE lines[1] \o <<"\n">> \o JoinLines(Tail(lines))

\* the texts split: every short string, and the texts of a few lines
MarkdownTexts ==
    Strings(DocAlphabet, MaxTextLen)
        \cup {JoinLines(lines) :
                 lines \in UNION {[1..n -> MarkdownLines] : n \in 1..MaxLines}}

MdIdle ==
    /\ mdText = <<>>
    /\ mdLevel = 0
    /\ mdOut = [exc |-> "none", sections |-> <<>>]

MdInit ==
    /\ mdText \in MarkdownTexts
    /\ mdLevel = 0
    /\ mdOut = [exc |-> "none", sections |-> <<>>]

CallSplitMarkdownByLevel ==
    /\ mdLevel = 0
    /\ \E level \in 1..MaxLevel :
          /\ mdLevel' = level
          /\ mdOut' = [exc |-> "none",
                       sections |-> SplitMarkdownByLevel(mdText, level)]
    /\ UNCHANGED mdText
    /\ UNCHANGED exceptMd

\* --------------------------------- DataLoader, SchemaIndexer and get_agent
\* None where a name is expected
NoName == <<>>

\* dataframes[name] = df on a dictionary that keeps insertion order
SetFrame(fr, name, df) ==
    IF \E k \in 1..Len(fr) : fr[k].name = name
    THEN [k \in 1..Len(fr) |->
             IF fr[k].name = name THEN [name |-> name, df |-> df] ELSE fr[k]]
    ELSE Append(fr, [name |-> name, df |-> df])

\* DataLoader.get_all_tables
AllTables(fr) == [k \in 1..Len(fr) |-> fr[k].name]

IsLoaded(fr, name) == \E k \in 1..Len(fr) : fr[k].name = name
FrameOf(fr, name) == (CHOOSE k \in 1..Len(fr) : fr[k].name = name)

\* DataLoader.load_csv: file is what is at file_path, [exists, stem, df]
LoadCsvFile(fr, file, table_name) ==
    IF ~file.exists
    THEN [exc |-> "FileNotFoundError", ret |-> None, frames |-> fr]
    ELSE LET name == IF table_name = NoName THEN file.stem ELSE table_name
         IN  [exc |-> "none", ret |-> name, frames |-> SetFrame(fr, name, file.df)]

\* s.split(sep)[-1] and s.split(sep)[0] for a one-character separator
AfterLast(str, sep) ==
    LET at == {k \in 1..Len(str) : str[k] = sep}
    IN  IF at = {} THEN str
        ELSE SubSeq(str, (CHOOSE k \in at : \A j \in at : j <= k) + 1, Len(str))
BeforeFirst(str, sep) ==
    LET at == {k \in 1..Len(str) : str[k] = sep}
    IN  IF at = {} THEN str
        ELSE SubSeq(str, 1, (CHOOSE k \in at : \A j \in at : k <= j) - 1)

\* DataLoader.connect_database; create_engine raises on a string that is
\* no database URL
ConnectDatabase(engines, connection_string, db_name, is_url) ==
    LET name == IF db_name = NoName
                THEN BeforeFirst(AfterLast(connection_string, "/"), "?")
                ELSE db_name
    IN  IF ~is_url
        THEN [exc |-> "ArgumentError", ret |-> None, engines |-> engines]
        ELSE [exc |-> "none", ret |-> name,
              engines |-> DictSet(engines, name, connection_string)]

\* the name load_database_table registers a table under
FullTableName(db_name, table_name) == db_name \o <<".">> \o table_name

\* load_database_table without the check of db_engines: an unknown db_name
\* loads nothing under its name and returns
LoadWithoutConnectionCheck(engines, fr, db_name, table_name, catalog) ==
    [exc |-> "none", ret |-> FullTableName(db_name, table_name),
     frames |-> SetFrame(fr, FullTableName(db_name, table_name),
                         [rows |-> 0, describable |-> TRUE])]

\* DataLoader.load_database_table; catalog is what the database behind a
\* connection string holds, table name -> rows read by pd.read_sql
LoadDatabaseTable(engines, fr, db_name, table_name, catalog) ==
    IF db_name \notin DOMAIN engines
    THEN [exc |-> "ValueError", ret |-> None, frames |-> fr]
    ELSE LET tables == catalog[engines[db_name]]
         IN  IF table_name \notin DOMAIN tables
             THEN [exc |-> "DatabaseError", ret |-> None, frames |-> fr]
             ELSE [exc |-> "none", ret |-> FullTableName(db_name, table_name),
                   frames |-> SetFrame(fr, FullTableName(db_name, table_name),
                                       tables[table_name])]

\* DataLoader.list_database_tables
ListDatabaseTables(engines, db_name, catalog) ==
    IF db_name \notin DOMAIN engines
    THEN [exc |-> "ValueError", ret |-> None]
    ELSE [exc |-> "none", ret |-> DOMAIN catalog[engines[db_name]]]

\* DataLoader.get_table_info
LoaderGetTableInfo(fr, table_name) ==
    IF ~IsLoaded(fr, table_name) THEN [exc |-> "ValueError", ret |-> None]
    ELSE [exc |-> "none",
          ret |-> [table_name |-> table_name,
                   row_count |-> fr[FrameOf(fr, table_name)].df.rows]]

\* the loop of SchemaIndexer.index_tables from table k on; the try block
\* fails for a table whose columns cannot be joined into a description
RECURSIVE IndexTablesLoop(_, _, _, _)
IndexTablesLoop(fr, table_names, k, docs) ==
    IF k > Len(table_names) THEN docs
    ELSE LET info == LoaderGetTableInfo(fr, table_names[k])
         IN  IF info.exc # "none" \/ ~fr[FrameOf(fr, table_names[k])].df.describable
             THEN IndexTablesLoop(fr, table_names, k + 1, docs)
             ELSE IndexTablesLoop(fr, table_names, k + 1,
                      Append(docs, [table_name |-> table_names[k],
                                    row_count |-> info.ret.row_count,
                                    info |-> info.ret]))

\* index_tables without `self.table_docs = []'
IndexTablesExtending(docs, fr) == IndexTablesLoop(fr, AllTables(fr), 1, docs)

\* SchemaIndexer.index_tables(): table_docs is reset, then filled
IndexTables(docs, fr) == IndexTablesLoop(fr, AllTables(fr), 1, <<>>)

\* SchemaIndexer.get_table_info
IndexerGetTableInfo(docs, table_name) ==
    IF \E k \in 1..Len(docs) : docs[k].table_name = table_name
    THEN [exc |-> "none",
          ret |-> docs[CHOOSE k \in 1..Len(docs) :
                          /\ docs[k].table_name = table_name
                          /\ \A j \in 1..(k - 1) : docs[j].table_name # table_name].info]
    ELSE [exc |-> "ValueError", ret |-> None]

\* QueryTool.get_table_schema
GetTableSchema(docs, table_name) ==
    LET r == IndexerGetTableInfo(docs, table_name)
    IN  IF r.exc # "none" THEN [exc |-> "none", ret |-> [error |-> r.exc]]
        ELSE r

\* the code points of the characters of table names
Ord(c) ==
    CASE c = " " -> 32 [] c = "'" -> 39 [] c = "," -> 44 [] c = "." -> 46
      [] c = "d" -> 100 [] c = "e" -> 101 [] c = "s" -> 115 [] c = "t" -> 116

\* a < b for strings
RECURSIVE StrLess(_, _)
StrLess(a, b) ==
    IF b = <<>> THEN FALSE
    ELSE IF a = <<>> THEN TRUE
    ELSE IF a[1] # b[1] THEN Ord(a[1]) < Ord(b[1])
    ELSE StrLess(Tail(a), Tail(b))

\* sorted(names) for distinct names
RECURSIVE SortedNames(_)
SortedNames(names) ==
    IF names = <<>> THEN <<>>
    ELSE LET least == CHOOSE k \in 1..Len(names) :
                          \A j \in 1..Len(names) :
                              j = k \/ StrLess(names[k], names[j])
         IN  <<names[least]>>
                 \o SortedNames([j \in 1..(Len(names) - 1) |->
                                    IF j < least THEN names[j] ELSE names[j + 1]])

\* repr of a string without double quotes and backslashes
Repr(name) ==
    IF \E k \in 1..Len(name) : name[k] = "'"
    THEN <<"\"">> \o name \o <<"\"">>
    ELSE <<"'">> \o name \o <<"'">>

\* str of a list of strings
RECURSIVE JoinReprs(_)
JoinReprs(names) ==
    IF names = <<>> THEN <<>>
    ELSE IF Len(names) = 1 THEN Repr(names[1])
    ELSE Repr(names[1]) \o <<",", " ">> \o JoinReprs(Tail(names))
StrOfList(names) == <<"[">> \o JoinReprs(names) \o <<"]">>

\* a key that forgets which tables are loaded
ConstantKey(fr) == <<"[", "]">>

\* tables_key of get_agent
TablesKey(fr) == StrOfList(SortedNames(AllTables(fr)))

\* app.get_agent: state is st.session_state, made the agents made so far,
\* init_exc what init_agent raises ("none": it returns a new agent, which
\* is given a number and remembers the tables it was created with)
GetAgent(state, fr, made, init_exc) ==
    LET tables_key == TablesKey(fr)
    IN  IF "agent" \notin DOMAIN state
           \/ "agent_tables_key" \notin DOMAIN state
           \/ state.agent_tables_key # tables_key
        THEN IF init_exc # "none"
             THEN [exc |-> init_exc, ret |-> 0, state |-> state, made |-> made]
             ELSE LET agent == [id |-> made + 1,
                                created_with |-> {fr[k].name : k \in 1..Len(fr)}]
                  IN  [exc |-> "none", ret |-> agent, made |-> made + 1,
                       state |-> DictSet(DictSet(state, "agent", agent),
                                         "agent_tables_key", tables_key)]
        ELSE [exc |-> "none", ret |-> state.agent, state |-> state, made |-> made]

\* ------------------------------- specification: DataLoader and SchemaIndexer
MaxTables == 2
MaxAgents == 3

QuotedName == <<"s", "'", ",", " ", "'", "t">>
CsvNames == {<<"s">>, <<"t">>, QuotedName}
DataFrames == {[rows |-> 1, describable |-> TRUE],
               [rows |-> 1, describable |-> FALSE]}
FilesOnDisk ==
    {[exists |-> FALSE, stem |-> <<"s">>, df |-> [rows |-> 1, describable |-> TRUE]]}
        \cup {[exists |-> TRUE, stem |-> stem, df |-> df] :
                 stem \in CsvNames, df \in DataFrames}

\* connection strings: two for the database d, one that is no URL
SqliteD == <<"s", ":", "/", "/", "/", "d">>
SqliteDWithOption == <<"s", ":", "/", "/", "/", "d", "?", "t">>
ConnectionStrings ==
    {[url |-> SqliteD, is_url |-> TRUE], [url |-> SqliteDWithOption, is_url |-> TRUE],
     [url |-> <<"d">>, is_url |-> FALSE]}
DbNames == {<<"d">>, <<"e">>}
DbTableNames == {<<"s">>, <<"t">>}

\* what the databases hold: d has the table s
Catalog ==
    [url \in {SqliteD, SqliteDWithOption} |->
        [t \in {<<"s">>} |-> [rows |-> 1, describable |-> TRUE]]]

LoadedOrRoom(name) == IsLoaded(frames, name) \/ Len(frames) < MaxTables

ExpReturn(fn, args, r) ==
    /\ expCall' = [fn |-> fn, args |-> args]
    /\ expOut' = [exc |-> r.exc, ret |-> r.ret]

CallLoadCsv ==
    /\ \E file \in FilesOnDisk, table_name \in {NoName, <<"t">>} :
          LET r == LoadCsvFile(frames, file, table_name)
          IN  /\ file.exists =>
                     LoadedOrRoom(IF table_name = NoName THEN file.stem ELSE table_name)
              /\ frames' = r.frames
              /\ ExpReturn("load_csv", <<file, table_name>>, r)
    /\ UNCHANGED <<dbEngines, tableDocs, agentState, agentsMade>>
    /\ UNCHANGED exceptExp

CallConnectDatabase ==
    /\ \E cs \in ConnectionStrings, db_name \in {NoName, <<"d">>} :
          LET r == ConnectDatabase(dbEngines, cs.url, db_name, cs.is_url)
          IN  /\ dbEngines' = r.engines
              /\ ExpReturn("connect_database", <<cs.url, db_name>>, r)
    /\ UNCHANGED <<frames, tableDocs, agentState, agentsMade>>
    /\ UNCHANGED exceptExp

CallLoadDatabaseTable ==
    /\ \E db_name \in DbNames, table_name \in DbTableNames :
          LET r == LoadDatabaseTable(dbEngines, frames, db_name, table_name, Catalog)
          IN  /\ LoadedOrRoom(FullTableName(db_name, table_name))
              /\ frames' = r.frames
              /\ ExpReturn("load_database_table", <<db_name, table_name>>, r)
    /\ UNCHANGED <<dbEngines, tableDocs, agentState, agentsMade>>
    /\ UNCHANGED exceptExp

CallListDatabaseTables ==
    /\ \E db_name \in DbNames :
          ExpReturn("list_database_tables", <<db_name>>,
                    ListDatabaseTables(dbEngines, db_name, Catalog))
    /\ UNCHANGED <<dbEngines, frames, tableDocs, agentState, agentsMade>>
    /\ UNCHANGED exceptExp

\* the names asked about: the CSV tables and the database tables
AskedNames == CsvNames \cup {FullTableName(d, t) : d \in DbNames, t \in DbTableNames}

CallGetTableInfo ==
    /\ \E table_name \in AskedNames :
          ExpReturn("get_table_info", <<table_name>>,
                    LoaderGetTableInfo(frames, table_name))
    /\ UNCHANGED <<dbEngines, frames, tableDocs, agentState, agentsMade>>
    /\ UNCHANGED exceptExp

CallIndexTables ==
    /\ tableDocs' = IndexTables(tableDocs, frames)
    /\ ExpReturn("index_tables", <<>>, [exc |-> "none", ret |-> NoName])
    /\ UNCHANGED <<dbEngines, frames, agentState, agentsMade>>
    /\ UNCHANGED exceptExp

CallGetTableSchema ==
    /\ \E table_name \in AskedNames :
          ExpReturn("get_table_schema", <<table_name>>,
                    GetTableSchema(tableDocs, table_name))
    /\ UNCHANGED <<dbEngines, frames, tableDocs, agentState, agentsMade>>
    /\ UNCHANGED exceptExp

CallGetAgent ==
    /\ agentsMade < MaxAgents
    /\ \E init_exc \in {"none", "Exception"} :
          LET r == GetAgent(agentState, frames, agentsMade, init_exc)
          IN  /\ agentState' = r.state
              /\ agentsMade' = r.made
              /\ ExpReturn("get_agent", <<>>, r)
    /\ UNCHANGED <<dbEngines, frames, tableDocs>>
    /\ UNCHANGED exceptExp

\* ------------------------------------------------------- specifications
\* the programs a specification does not run
ExpIdle ==
    /\ dbEngines = <<>>
    /\ frames = <<>>
    /\ tableDocs = <<>>
    /\ agentState = <<>>
    /\ agentsMade = 0
    /\ expCall = NoCall
    /\ expOut = [exc |-> "none", ret |-> NoName]

ExpInit == ExpIdle

\* ------------------------------------- specification: day-6 CLI and web app
MaxCliQuestions == 3
MaxWebPrompts == 2

Stop == <<"s", "t", "o", "p">>

\* what the user types at `Your question: '
CliInputs ==
    {Stop, <<" ", "S", "t", "o", "p", "\n">>, <<"S", "T", "O", "P">>,
     <<"s", "t", " ", "o", "p">>, <<"s", "t", "o", "p", "s">>, <<>>,
     <<"a", "?">>}

\* what the user types into st.chat_input
WebPrompts == {<<"a", "?">>, Stop}

\* what result.stream_output yields: the text so far, chunk after chunk
Streams ==
    {<<>>, <<<<>>>>, <<<<"a">>>>, <<<<"a">>, <<"a">>>>,
     <<<<"a">>, <<"a", "b">>>>, <<<<"a", "b">>>>}

Event(ev, text) == [ev |-> ev, text |-> text]

\* question == 'stop'
IsStopExact(question) == question = Stop

\* question.strip().lower() == 'stop'
IsStop(question) == Lower(Strip(question)) = Stop

\* one turn of main's loop: what it does, in order; run_exc and log_exc say
\* whether agent.run and log_interaction_to_file raise
CliTurn(question, run_exc, log_exc) ==
    <<Event("input", question)>>
    \o IF IsStop(question) THEN <<Event("goodbye", question)>>
       ELSE <<Event("agent", question)>>
            \o IF run_exc THEN <<Event("raised", question)>>
               ELSE <<Event("log", question)>>
                    \o IF log_exc THEN <<Event("raised", question)>>
                       ELSE <<Event("answered", question)>>

\* the pieces agen yields for the chunks from the k-th on
RECURSIVE StreamedPieces(_, _, _)
StreamedPieces(chunks, k, last_len) ==
    IF k > Len(chunks) THEN <<>>
    ELSE LET chunk == chunks[k]
             new_text == SubSeq(chunk, last_len + 1, Len(chunk))
         IN  (IF new_text # <<>> THEN <<Event("piece", new_text)>> ELSE <<>>)
             \o StreamedPieces(chunks, k + 1, Len(chunk))

\* full_text when the stream has ended
FullText(chunks) == IF chunks = <<>> THEN <<>> ELSE chunks[Len(chunks)]

\* the run of day6_app.py's script that receives a prompt: what it does, in
\* order; exc is "stream" when the stream raises after the chunks, "log"
\* when log_interaction_to_file raises
WebTurn(prompt, chunks, exc) ==
    <<Event("input", prompt)>>
    \o StreamedPieces(chunks, 1, 0)
    \o IF exc = "stream" THEN <<Event("raised", prompt)>>
       ELSE <<Event("log", prompt)>>
            \o IF exc = "log" THEN <<Event("raised", prompt)>>
               ELSE <<Event("answered", FullText(chunks))>>

TurnRaised(events) == events[Len(events)].ev = "raised"

InputsRead == Len(SelectSeq(d6Trace, LAMBDA e : e.ev = "input"))

D6Idle ==
    /\ d6Program = "none"
    /\ d6Pc = "ready"
    /\ d6Messages = <<>>
    /\ d6Last = None
    /\ d6Trace = <<>>

\* main or the Streamlit session has started, the agent is initialised
D6Init ==
    /\ d6Program \in {"cli", "web"}
    /\ d6Pc = "ready"
    /\ d6Messages = <<>>
    /\ d6Last = None
    /\ d6Trace = <<>>

\* day6_main.main: one turn of `while True'
CliLoop ==
    /\ d6Program = "cli"
    /\ d6Pc = "ready"
    /\ InputsRead < MaxCliQuestions
    /\ \E question \in CliInputs, run_exc \in BOOLEAN, log_exc \in BOOLEAN :
          LET events == CliTurn(question, run_exc, log_exc)
          IN  /\ d6Trace' = d6Trace \o events
              /\ d6Pc' = IF IsStop(question) THEN "exited"
                         ELSE IF TurnRaised(events) THEN "crashed" ELSE "ready"
    /\ UNCHANGED <<d6Program, d6Messages, d6Last>>
    /\ UNCHANGED exceptD6

\* day6_app.py: the script run in which st.chat_input returns a prompt
WebPrompt ==
    /\ d6Program = "web"
    /\ d6Pc = "ready"
    /\ InputsRead < MaxWebPrompts
    /\ \E prompt \in WebPrompts, chunks \in Streams, exc \in {"none", "stream", "log"} :
          LET events == WebTurn(prompt, chunks, exc)
              user == [role |-> "user", content |-> prompt]
              final_text == FullText(chunks)
          IN  /\ d6Trace' = d6Trace \o events
              /\ IF exc = "none"
                 THEN /\ d6Last' = final_text
                      /\ d6Messages' = d6Messages \o <<user, [role |-> "assistant", content |-> final_text]>>
                 ELSE /\ d6Last' = d6Last
                      /\ d6Messages' = Append(d6Messages, user)
    /\ UNCHANGED <<d6Program, d6Pc>>
    /\ UNCHANGED exceptD6

OtherIdle == ChatIdle /\ SearchIdle /\ MdIdle /\ ExpIdle /\ D6Idle

\* the sliding_window functions alone
Init == SwInit /\ DocIdle /\ QIdle /\ LogIdle /\ IngIdle /\ OtherIdle

Next ==
    \/ CallDay2SlidingWindow
    \/ CallDay6SlidingWindow

Spec == Init /\ [][Next]_vars

\* the document chunkers
InitChunkers == SwIdle /\ DocInit /\ QIdle /\ LogIdle /\ IngIdle /\ OtherIdle

NextChunkers ==
    \/ CallChunkDocumentsSlidingWindow
    \/ CallChunkDocumentsBySections
    \/ CallChunkDocumentsByParagraphs
    \/ CallChunkDocumentsIntelligent
    \/ CallChunkDocuments
    \/ CallSameChunkerAgain

SpecChunkers == InitChunkers /\ [][NextChunkers]_vars

\* the data loader and the query tool
InitQuery == SwIdle /\ DocIdle /\ QInit /\ LogIdle /\ IngIdle /\ OtherIdle
NextQuery ==
    \/ LoadCsv
    \/ CallQueryData
    \/ CallCreateChart
SpecQuery == InitQuery /\ [][NextQuery]_vars

\* the logging functions
InitLogs == SwIdle /\ DocIdle /\ QIdle /\ LogInit /\ IngIdle /\ OtherIdle
NextLogs ==
    \/ CallLogInteractionToFile
    \/ CallLoadLogFile
SpecLogs == InitLogs /\ [][NextLogs]_vars

\* the analysis of the logs of a directory
InitLogAnalysis == SwIdle /\ DocIdle /\ QIdle /\ InitAnalysis /\ IngIdle /\ OtherIdle
NextLogAnalysis ==
    \/ CallAnalyzeExistingLogs
SpecLogAnalysis == InitLogAnalysis /\ [][NextLogAnalysis]_vars

\* index_data, statement by statement
InitIngest == SwIdle /\ DocIdle /\ QIdle /\ LogIdle /\ IngInit /\ OtherIdle
NextIngest ==
    \/ CallIndexData
    \/ CallInitializeIndex
    \/ Download
    \/ Filter
    \/ Chunk
    \/ BuildIndex
SpecIngest == InitIngest /\ [][NextIngest]_vars

\* the data-explorer chat of app.py
InitChat == SwIdle /\ DocIdle /\ QIdle /\ LogIdle /\ IngIdle /\ ChatInit /\ SearchIdle /\ MdIdle /\ ExpIdle /\ D6Idle

NextChat ==
    \/ UploadCsv
    \/ SubmitPrompt
    \/ RunScript
    \/ GenerateResponse

SpecChat == InitChat /\ [][NextChat]_vars

\* Streamlit runs a script run that is due to its end; the user is free to
\* ask nothing
SpecChatFair ==
    SpecChat /\ WF_vars(UploadCsv \/ RunScript) /\ WF_vars(GenerateResponse)

\* one run of app.py's script over a session with a question waiting
InitPrompt == SwIdle /\ DocIdle /\ QIdle /\ LogIdle /\ IngIdle /\ PendingInit /\ SearchIdle /\ MdIdle /\ ExpIdle /\ D6Idle

NextPrompt ==
    \/ RunScript
    \/ GenerateResponse

SpecPrompt == InitPrompt /\ [][NextPrompt]_vars

\* day6_main.py's loop and day6_app.py's script
InitDay6 == SwIdle /\ DocIdle /\ QIdle /\ LogIdle /\ IngIdle /\ ChatIdle /\ SearchIdle /\ MdIdle /\ ExpIdle /\ D6Init

NextDay6 ==
    \/ CliLoop
    \/ WebPrompt

SpecDay6 == InitDay6 /\ [][NextDay6]_vars

\* SimpleSearchIndex of day4_agent.py
InitSearch == SwIdle /\ DocIdle /\ QIdle /\ LogIdle /\ IngIdle /\ ChatIdle /\ SearchInit /\ MdIdle /\ ExpIdle /\ D6Idle

NextSearch ==
    \/ CallSearch
    \/ CallTextSearch

SpecSearch == InitSearch /\ [][NextSearch]_vars

\* split_markdown_by_level of day2_chunking.py
InitMarkdown == SwIdle /\ DocIdle /\ QIdle /\ LogIdle /\ IngIdle /\ ChatIdle /\ SearchIdle /\ MdInit /\ ExpIdle /\ D6Idle

NextMarkdown == CallSplitMarkdownByLevel

SpecMarkdown == InitMarkdown /\ [][NextMarkdown]_vars

\* DataLoader and SchemaIndexer
InitLoader == SwIdle /\ DocIdle /\ QIdle /\ LogIdle /\ IngIdle /\ ChatIdle /\ SearchIdle /\ MdIdle /\ ExpInit /\ D6Idle

NextLoader ==
    \/ CallLoadCsv
    \/ CallConnectDatabase
    \/ CallLoadDatabaseTable
    \/ CallListDatabaseTables
    \/ CallGetTableInfo
    \/ CallIndexTables
    \/ CallGetTableSchema

SpecLoader == InitLoader /\ [][NextLoader]_vars

\* get_agent of app.py while tables are loaded
NextAgent ==
    \/ CallLoadCsv
    \/ CallGetAgent

SpecAgent == InitLoader /\ [][NextAgent]_vars

\* ------------------------------------------------- claims: sliding_window
SwReturned(impl) == swImpl = impl /\ swOut.exc = "none"
SwPositive == swSize > 0 /\ swStep > 0
SwLast == swOut.chunks[Len(swOut.chunks)]

\* C1: sliding_window(seq, size, step) raises ValueError and returns no
\* chunks whenever size <= 0 or step <= 0, for every string seq (the empty
\* one included), in day2_chunking and in day6_ingest alike.
C1_RejectsNonPositive ==
    (swImpl # "none" /\ (swSize <= 0 \/ swStep <= 0))
        => (swOut.exc = "ValueError" /\ swOut.chunks = <<>>)

C1_Witness ==
    /\ swImpl = "day6"
    /\ swSeq = <<>>
    /\ swSize > 0
    /\ swStep = 0
    /\ swOut.exc = "ValueError"

\* C2: for positive size and step the k-th chunk (from 0) of
\* day2_chunking.sliding_window starts at k*step and holds
\* seq[start : start+size]; starts increase strictly and are below len(seq).
C2_ChunksAreWindows ==
    (SwReturned("day2") /\ SwPositive) =>
        \A k \in 1..Len(swOut.chunks) :
            LET c == swOut.chunks[k]
                m == Min(swSize, Len(swSeq) - c.start)
            IN  /\ c.start = (k - 1) * swStep
                /\ c.start < Len(swSeq)
                /\ c.chunk = [j \in 1..m |-> swSeq[c.start + j]]
                /\ k > 1 => swOut.chunks[k - 1].start < c.start

C2_Witness ==
    /\ SwReturned("day2")
    /\ SwPositive
    /\ Len(swOut.chunks) >= 3
    /\ Len(SwLast.chunk) < swSize
    /\ SwLast.chunk # <<>>

\* C3 as stated: for a non-empty seq and positive size and step the last
\* chunk of day2_chunking.sliding_window is the first one with
\* start + size >= len(seq), and every earlier chunk has size characters.
C3_LastChunkReachesEnd ==
    (SwReturned("day2") /\ SwPositive /\ swSeq # <<>>) =>
        /\ swOut.chunks # <<>>
        /\ SwLast.start + swSize >= Len(swSeq)
        /\ \A k \in 1..(Len(swOut.chunks) - 1) :
              /\ swOut.chunks[k].start + swSize < Len(swSeq)
              /\ Len(swOut.chunks[k].chunk) = swSize

\* C3 amended: no chunk follows the first one with start + size >=
\* len(seq) and every chunk before the last has size characters; the last
\* chunk is that first chunk whenever step <= size, and when step > size it
\* is either that chunk or the chunk at the largest multiple of step below
\* len(seq), whose window ends before the string does.
C3_StopsAtEndOrLastStart ==
    (SwReturned("day2") /\ SwPositive /\ swSeq # <<>>) =>
        /\ swOut.chunks # <<>>
        /\ \/ SwLast.start + swSize >= Len(swSeq)
           \/ swStep > swSize /\ SwLast.start + swStep >= Len(swSeq)
        /\ \A k \in 1..(Len(swOut.chunks) - 1) :
              /\ swOut.chunks[k].start + swSize < Len(swSeq)
              /\ Len(swOut.chunks[k].chunk) = swSize

C3_Witness ==
    /\ SwReturned("day2")
    /\ SwPositive
    /\ Len(swOut.chunks) >= 2
    /\ swStep > swSize
    /\ SwLast.start + swSize < Len(swSeq)

\* C4: day6_ingest.sliding_window returns no chunk after the first one
\* whose window satisfies start + size >= len(seq) (non-empty seq, positive
\* size and step).
C4_Day6StopsAtEnd ==
    (SwReturned("day6") /\ SwPositive /\ swSeq # <<>>) =>
        \A k \in 1..(Len(swOut.chunks) - 1) :
            swOut.chunks[k].start + swSize < Len(swSeq)

\* C5 as stated: day2_chunking.sliding_window returns 1 chunk when
\* n <= size and ceil((n - size)/step) + 1 chunks otherwise, never more than
\* ceil(n/step); none for the empty string.
C5_CountFormula ==
    (SwReturned("day2") /\ SwPositive) =>
        LET n == Len(swSeq)
            count == Len(swOut.chunks)
        IN  /\ n = 0 => count = 0
            /\ (n > 0 /\ n <= swSize) => count = 1
            /\ n > swSize => count = CeilDiv(n - swSize, swStep) + 1
            /\ n > 0 => count <= CeilDiv(n, swStep)

\* C5 amended: 1 chunk when 0 < n <= size, otherwise the smaller of
\* ceil((n - size)/step) + 1 and ceil(n/step); none for the empty string.
C5_CountIsMinOfBoth ==
    (SwReturned("day2") /\ SwPositive) =>
        LET n == Len(swSeq)
            count == Len(swOut.chunks)
        IN  /\ n = 0 => count = 0
            /\ (n > 0 /\ n <= swSize) => count = 1
            /\ n > swSize =>
                  count = Min(CeilDiv(n - swSize, swStep) + 1, CeilDiv(n, swStep))
            /\ n > 0 => count <= CeilDiv(n, swStep)

C5_Witness ==
    /\ SwReturned("day2")
    /\ SwPositive
    /\ Len(swSeq) > swSize
    /\ Len(swOut.chunks) = CeilDiv(Len(swSeq), swStep)
    /\ Len(swOut.chunks) < CeilDiv(Len(swSeq) - swSize, swStep) + 1

\* ----------------------------------------------- claims: document chunkers
DocCalled(fn) == docCall.fn = fn /\ docOut.exc = "none"
DocChunks == {docOut.chunks[k] : k \in 1..Len(docOut.chunks)}
InputDocs == {docHeap[documents[k]] : k \in 1..Len(documents)}

\* text occurs in doc's content at 0-based offset i
OccursAt(text, doc, i) ==
    /\ "content" \in DOMAIN doc
    /\ i + Len(text) <= Len(doc.content)
    /\ \A j \in 1..Len(text) : doc.content[i + j] = text[j]

IsFragment(text) ==
    \E doc \in InputDocs :
        "content" \in DOMAIN doc /\ doc.content # <<>>
            /\ \E i \in 0..Len(doc.content) : OccursAt(text, doc, i)

\* the key is in the chunk only because an input document carries it
OnlyFromMetadata(c, key) ==
    key \in DOMAIN c => \E doc \in InputDocs : key \in DOMAIN doc

\* C6: the chunkers have no side effects on their inputs: a call of
\* chunk_documents_sliding_window, chunk_documents_by_sections,
\* chunk_documents_by_paragraphs or day6_ingest.chunk_documents (and of
\* sliding_window inside them) leaves the list and every document dictionary
\* as they were, each with its keys, and the same call made again returns
\* the same outcome.
C6_NoSideEffects ==
    [][/\ documents' = documents
       /\ docHeap' = docHeap
       /\ \A k \in 1..Len(docHeap) : DOMAIN docHeap'[k] = DOMAIN docHeap[k]
       /\ docCall' = docCall => docOut' = docOut]_vars

C6_Witness ==
    /\ DocCalled("chunk_documents")
    /\ Len(docOut.chunks) >= 2
    /\ Len(documents) = 2
    /\ \A doc \in InputDocs : "content" \in DOMAIN doc /\ doc.content # <<>>

\* C7 as stated: every chunk a document chunker produces carries both a
\* start offset and a chunk method tag.
C7_StartAndMethodOnEveryChunk ==
    \A c \in DocChunks :
        /\ "start" \in DOMAIN c \/ "chunk_start" \in DOMAIN c
        /\ "chunk_method" \in DOMAIN c

\* C7 amended: a chunk of chunk_documents_sliding_window is a fragment of
\* an input document with non-empty content, found at its chunk_start, and
\* is tagged 'sliding_window'; a chunk of chunk_documents_by_sections,
\* chunk_documents_by_paragraphs or chunk_documents_intelligent carries its
\* text and its chunk method tag, and a start offset key only when the
\* document's own metadata has one; a chunk of day6_ingest.chunk_documents
\* is a fragment of an input document under 'content' with a 'start' key,
\* and has a chunk method tag only when the document's metadata has one.
C7_ChunkFields ==
    \A c \in DocChunks :
        /\ DocCalled("chunk_documents_sliding_window") =>
              /\ {"chunk", "chunk_start", "chunk_method"} \subseteq DOMAIN c
              /\ c.chunk_method = "sliding_window"
              /\ \E doc \in InputDocs : OccursAt(c.chunk, doc, c.chunk_start)
        /\ DocCalled("chunk_documents_by_sections") =>
              /\ {"section", "chunk_method"} \subseteq DOMAIN c
              /\ c.chunk_method = SectionMethod(docCall.level)
              /\ OnlyFromMetadata(c, "start")
              /\ OnlyFromMetadata(c, "chunk_start")
        /\ DocCalled("chunk_documents_by_paragraphs") =>
              /\ {"paragraph", "chunk_method"} \subseteq DOMAIN c
              /\ c.chunk_method = "paragraph"
              /\ IsFragment(c.paragraph)
              /\ OnlyFromMetadata(c, "start")
              /\ OnlyFromMetadata(c, "chunk_start")
        /\ DocCalled("chunk_documents_intelligent") =>
              /\ {"section", "chunk_method"} \subseteq DOMAIN c
              /\ c.chunk_method = "intelligent_llm"
              /\ OnlyFromMetadata(c, "start")
              /\ OnlyFromMetadata(c, "chunk_start")
        /\ DocCalled("chunk_documents") =>
              /\ {"content", "start"} \subseteq DOMAIN c
              /\ IsFragment(c.content)
              /\ OnlyFromMetadata(c, "chunk_method")

C7_Witness ==
    /\ DocCalled("chunk_documents_by_sections")
    /\ \E c \in DocChunks :
          "chunk_method" \in DOMAIN c /\ DOMAIN c \cap {"start", "chunk_start"} = {}


\* the documents of the call, in list order
DocAt(k) == docHeap[documents[k]]
HasContent(k) == "content" \in DOMAIN DocAt(k) /\ DocAt(k).content # <<>>
LlmRaised(k) == HasContent(k) /\ docCall.llm[k].exc # "none"
LlmAnswered(k) == HasContent(k) /\ docCall.llm[k].exc = "none"

\* the stripped, non-empty pieces between the '---' of a response
ResponseSections(response) == NonEmpty(StripAll(SplitOnDashes(response, 1)))

\* the chunks document k is to contribute
RECURSIVE SectionChunksFrom(_)
SectionChunksFrom(k) ==
    IF k > Len(documents) THEN <<>>
    ELSE (IF LlmAnswered(k)
          THEN LET sections == ResponseSections(docCall.llm[k].response)
                   metadata == [key \in DOMAIN DocAt(k) \ {"content"} |->
                                   DocAt(k)[key]]
               IN  [j \in 1..Len(sections) |->
                       DictSet(DictSet(metadata, "section", sections[j]),
                               "chunk_method", "intelligent_llm")]
          ELSE <<>>) \o SectionChunksFrom(k + 1)

RECURSIVE ErrorsFrom(_)
ErrorsFrom(k) ==
    IF k > Len(documents) THEN <<>>
    ELSE (IF LlmRaised(k)
          THEN <<[message |-> "Error processing document",
                  filename |-> DocAt(k).filename,
                  e |-> docCall.llm[k].exc]>>
          ELSE <<>>) \o ErrorsFrom(k + 1)

\* C17: chunk_documents_intelligent isolates failures per document: when
\* the LLM function raises for a document, the call still returns, that
\* document contributes no chunk, one message naming it is printed, and the
\* output is the in-order concatenation of the non-empty '---'-separated
\* sections of the documents for which the LLM function answered.
C17_FailuresIsolatedPerDocument ==
    docCall.fn = "chunk_documents_intelligent" =>
        /\ docOut.exc = "none"
        /\ docOut.chunks = SectionChunksFrom(1)
        /\ docOut.printed = ErrorsFrom(1)

C17_Witness ==
    /\ DocCalled("chunk_documents_intelligent")
    /\ Len(documents) = 2
    /\ LlmRaised(1)
    /\ LlmAnswered(2)
    /\ Len(docOut.chunks) = 2
    /\ Len(docOut.printed) = 1

\* ------------------------------------------------------- claims: QueryTool
QCalled(fn) == qCall.fn = fn
QSucceeded == QCalled("query_data") /\ "success" \in DOMAIN qOut.ret
QTable == dataframes[qCall.table_name]

\* a row satisfies a filter: a filter on a column the table does not have
\* is satisfied, an equality filter by an equal cell, an operator filter by
\* a cell that compares true under each of its six known operators
Satisfies(df, row, filter) ==
    LET col == filter[1]
        value == filter[2]
    IN  \/ col \notin DOMAIN df.dtypes
        \/ /\ value.kind = "eq"
           /\ SameKind(df.dtypes[col], value.val)
           /\ row[col] = value.val.v
        \/ /\ value.kind = "ops"
           /\ \A k \in 1..Len(value.ops) :
                  value.ops[k][1] \in KnownOps =>
                      CompareCell(df.dtypes[col], row[col], value.ops[k][1],
                                  value.ops[k][2])

\* the rows of a table that satisfy all the filters, in the table's order
Matching(df, filters) ==
    LET Keep(row) == \A k \in 1..Len(filters) : Satisfies(df, row, filters[k])
    IN  SelectSeq(df.rows, Keep)

\* the table query_data groups and aggregates: the projection of a table
QProjected(df) ==
    LET available_cols == AvailableCols(qCall.columns, df)
    IN  IF qCall.columns # <<>> /\ available_cols # <<>>
        THEN Project(df, available_cols)
        ELSE df

\* the aggregation of the call happened group by group
QGrouped(df) ==
    /\ qCall.aggregation \in {"sum", "mean", "count", "max", "min"}
    /\ AvailableCols(qCall.group_by, df) # <<>>

\* C8: query_data filters before it groups and aggregates, and the filters
\* are conjunctive: the rows of a successful result are the leading rows
\* that satisfy every filter on a column of the table; a grouped result has
\* one entry per group of exactly those rows, and every aggregate, grouped
\* or not, is the aggregate of exactly those rows
C8_FiltersThenAggregation ==
    QSucceeded =>
        LET rows == Matching(QTable, qCall.filters)
            df == QProjected([QTable EXCEPT !.rows = rows])
            group_cols == AvailableCols(qCall.group_by, df)
            keys == GroupKeys(df, group_cols)
            over == QueryAggregation(df, qCall.aggregation, qCall.group_by)
        IN  /\ qOut.ret.result =
                   IF qOut.type = "series" THEN over.result.values
                   ELSE HeadRows(over.result.rows, qCall.limit)
            /\ qOut.type = "frame" /\ ~QGrouped(df) =>
                   /\ qOut.ret.row_count = Len(rows)
                   /\ qOut.ret.result = HeadRows(df.rows, qCall.limit)
            /\ QGrouped(df) =>
                   /\ qOut.ret.row_count = Len(keys)
                   /\ qCall.aggregation = "count" =>
                          \A k \in 1..Len(qOut.ret.result) :
                              qOut.ret.result[k].count =
                                  Len(GroupRows(df, group_cols, keys[k]))
            /\ qOut.type = "series" /\ qCall.aggregation = "count" =>
                   qOut.ret.result.count = Len(rows)

\* a call with two filters on columns of the table, one of which alone
\* keeps a row that both together reject, whose groups were aggregated
C8_Witness ==
    /\ QSucceeded
    /\ Len(qCall.filters) = 2
    /\ \A k \in 1..2 : qCall.filters[k][1] \in DOMAIN QTable.dtypes
    /\ \E k \in 1..2 :
           Len(Matching(QTable, <<qCall.filters[k]>>)) >
               Len(Matching(QTable, qCall.filters))
    /\ Len(Matching(QTable, qCall.filters)) > 0
    /\ QGrouped(QProjected(QTable))
    /\ qOut.ret.row_count = 1
    /\ Len(qOut.ret.result) = 1

\* the number of records of a tabular result, of entries of a Series
QResultSize ==
    IF qOut.type = "series" THEN Cardinality(DOMAIN qOut.ret.result)
    ELSE Len(qOut.ret.result)

QTry ==
    IF QCalled("query_data")
    THEN QueryDataTry(dataframes, qCall.table_name, qCall.columns,
                      qCall.filters, qCall.aggregation, qCall.group_by,
                      qCall.limit)
    ELSE CreateChartTry(dataframes, qCall.table_name, qCall.chart_type,
                        qCall.x_column, qCall.y_column, qCall.group_by,
                        qCall.aggregation, qCall.filters, qCall.title)

\* C10: query_data and create_chart never raise; for a table that is not
\* loaded they return 'error' and 'available_tables', the names of the
\* loaded tables; an exception of the try block is returned as a
\* dictionary with 'error'; a returned dictionary has exactly one of
\* 'success' and 'error'
C10_FailuresAreValues ==
    qCall # NoCall =>
        /\ qOut.exc = "none"
        /\ ("success" \in DOMAIN qOut.ret) # ("error" \in DOMAIN qOut.ret)
        /\ qCall.table_name \notin DOMAIN dataframes =>
               /\ {"error", "available_tables"} \subseteq DOMAIN qOut.ret
               /\ SeqToSet(qOut.ret.available_tables) = DOMAIN dataframes
               /\ Len(qOut.ret.available_tables) = Cardinality(DOMAIN dataframes)
        /\ qCall.table_name \in DOMAIN dataframes /\ QTry.exc # "none" =>
               "error" \in DOMAIN qOut.ret

\* a filter that raised TypeError on a loaded table, returned as an error
C10_Witness ==
    /\ QCalled("query_data")
    /\ qCall.table_name \in DOMAIN dataframes
    /\ QTry.exc = "TypeError"
    /\ "error" \in DOMAIN qOut.ret
    /\ qOut.exc = "none"

\* C11: with aggregation 'count' and no group_by, a successful query_data
\* returns a single 'count' entry, the number of rows that satisfy the
\* filters, for every loaded table
C11_CountWithoutGroupBy ==
    (QSucceeded /\ qCall.aggregation = "count" /\ qCall.group_by = <<>>) =>
        /\ qOut.type = "series"
        /\ DOMAIN qOut.ret.result = {"count"}
        /\ qOut.ret.result.count = Len(Matching(QTable, qCall.filters))

\* C12: with one of the five aggregations and a group_by that names a
\* column of the table, a successful query_data returns a grouped result,
\* one row per distinct group of the rows that satisfy the filters, with
\* or without a projection
C12_GroupedWithProjection ==
    LET rows == Matching(QTable, qCall.filters)
        group_cols == AvailableCols(qCall.group_by, QTable)
    IN  (/\ QSucceeded
         /\ qCall.aggregation \in {"sum", "mean", "count", "max", "min"}
         /\ group_cols # <<>>) =>
            /\ qOut.type = "frame"
            /\ qOut.ret.row_count =
                   Len(GroupKeys([QTable EXCEPT !.rows = rows], group_cols))

\* --------------------------------------------------------- claims: logging
LogCalled(fn) == logCall.fn = fn

\* the timestamp the claim names: that of the last message when it has
\* one, the time of the call otherwise
LastMessageTime(call) ==
    LET last == call.messages[Len(call.messages)]
    IN  IF call.messages # <<>> /\ "timestamp" \in DOMAIN last
        THEN IF last.timestamp.type = "str"
             THEN FromIsoformat(last.timestamp.s) ELSE last.timestamp
        ELSE call.now

\* path is '<directory>/<agent name>_<YYYYMMDD_HHMMSS of ts>_<6 hexadecimal
\* characters>.json'
IsLogPath(path, directory, name, ts) ==
    LET stem == directory \o <<"/">> \o name \o <<"_">> \o Strftime(ts) \o <<"_">>
        n == Len(stem)
    IN  /\ Len(path) = n + 6 + Len(JsonSuffix)
        /\ SubSeq(path, 1, n) = stem
        /\ \A k \in (n + 1)..(n + 6) : path[k] \in SeqToSet(HexDigits)
        /\ SubSeq(path, n + 7, Len(path)) = JsonSuffix
        /\ \A k \in (Len(directory) + 2)..Len(path) : path[k] # "/"

\* C13: a call of log_interaction_to_file writes one file and no other,
\* in the log directory, named after the agent, the timestamp of the last
\* message (the current time when it has none or there is no message) and
\* 6 hexadecimal characters, and returns its path
C13_OneNamedFilePerCall ==
    [][LogCalled("log_interaction_to_file")' =>
          LET path == logOut'.ret
          IN  /\ logOut'.exc = "none"
              /\ IsLogPath(path, LogDir(logEnv.impl, logEnv.env),
                           logEnv.agent.name, LastMessageTime(logCall'))
              /\ DOMAIN logFiles' = DOMAIN logFiles \cup {path}
              /\ \A p \in DOMAIN logFiles \ {path} : logFiles'[p] = logFiles[p]
              /\ logFiles'[path].source = logCall'.source]_vars

\* a second file was written, for an interaction whose last message has no
\* timestamp while an earlier one has
C13_Witness ==
    /\ LogCalled("log_interaction_to_file")
    /\ Cardinality(DOMAIN logFiles) = 2
    /\ Len(logCall.messages) = 2
    /\ "timestamp" \in DOMAIN logCall.messages[1]
    /\ "timestamp" \notin DOMAIN logCall.messages[2]
    /\ logOut.ret \in DOMAIN logFiles

\* the fields of a logged message, datetimes read back from ISO strings
ReadTimestamp(d) ==
    [k \in DOMAIN d |->
        IF k = "timestamp" THEN FromIsoformat(d[k].s) ELSE d[k]]
ReadMessage(m) ==
    [ReadTimestamp(m) EXCEPT
        !.parts = [k \in 1..Len(m.parts) |-> ReadTimestamp(m.parts[k])]]
AsDatetime(d) ==
    [k \in DOMAIN d |->
        IF k = "timestamp" /\ d[k].type = "str" THEN FromIsoformat(d[k].s)
        ELSE d[k]]
AsDatetimes(m) ==
    [AsDatetime(m) EXCEPT
        !.parts = [k \in 1..Len(m.parts) |-> AsDatetime(m.parts[k])]]

\* C14: load_log_file of the file log_interaction_to_file has just written
\* returns the logged entry, its datetimes as ISO-8601 strings, plus
\* 'log_file', the path it was loaded from
C14_LogThenLoadRoundTrip ==
    [][(/\ LogCalled("log_interaction_to_file")
        /\ LogCalled("load_log_file")'
        /\ logCall'.log_file = logOut.ret) =>
          LET record == logOut'.ret
              entry == LogEntry(logEnv.agent, logCall.messages, logCall.source)
          IN  /\ logOut'.exc = "none"
              /\ DOMAIN record = DOMAIN entry \cup {"log_file"}
              /\ \A k \in DOMAIN entry \ {"messages"} : record[k] = entry[k]
              /\ record.log_file = logOut.ret
              /\ Len(record.messages) = Len(entry.messages)
              /\ \A k \in 1..Len(entry.messages) :
                     /\ ReadMessage(record.messages[k]) =
                            AsDatetimes(entry.messages[k])
                     /\ "timestamp" \in DOMAIN record.messages[k] =>
                            record.messages[k].timestamp.type = "str"]_vars

\* a loaded record of two messages whose timestamps were written as ISO
\* strings, one of them with microseconds
C14_Witness ==
    /\ LogCalled("load_log_file")
    /\ logOut.exc = "none"
    /\ logOut.ret.log_file = logCall.log_file
    /\ Len(logOut.ret.messages) = 2
    /\ \A k \in 1..2 :
           /\ "timestamp" \in DOMAIN logOut.ret.messages[k]
           /\ logOut.ret.messages[k].timestamp.type = "str"
    /\ \E k \in 1..2 :
           FromIsoformat(logOut.ret.messages[k].timestamp.s).microsecond # 0

\* ---------------------------------------------------- claims: log analysis
\* the log file holds a JSON document, so that it loads
Loads(log_file) == logCall.files[log_file] # InvalidJson

\* the log file loads and its record matches the filters of the call
LoadsAndMatches(log_file) ==
    /\ Loads(log_file)
    /\ \/ logCall.agent_name = <<>>
       \/ /\ "agent_name" \in DOMAIN logCall.files[log_file]
          /\ Contains(logCall.agent_name, logCall.files[log_file].agent_name)
    /\ \/ logCall.source = None
       \/ /\ "source" \in DOMAIN logCall.files[log_file]
          /\ logCall.files[log_file].source = logCall.source

\* the evaluation of the log file succeeds
Evaluates(log_file) ==
    EvaluateLogRecord(logCall.files[log_file], logCall.llm[log_file]).exc = "none"

Printed(message, log_file) ==
    \E k \in 1..Len(logOut.ret.printed) :
        logOut.ret.printed[k] = [message |-> message, file |-> log_file]

\* what C15 says of a call
AnalysisIsolatesFailures ==
    LET matching == SelectSeq(logCall.log_files, LoadsAndMatches)
        evaluated == SelectSeq(matching, Evaluates)
    IN  /\ logOut.ret.filtered_logs = matching
        /\ logOut.ret.evaluated = evaluated
        /\ \A k \in 1..Len(logCall.log_files) :
               ~Loads(logCall.log_files[k]) =>
                   Printed("Error loading", logCall.log_files[k])
        /\ \A k \in 1..Len(matching) :
               ~Evaluates(matching[k]) => Printed("Error evaluating", matching[k])
        /\ Len(logOut.ret.report) = Len(evaluated)
        /\ \A k \in 1..Len(evaluated) :
               logOut.ret.report[k].file = Basename(evaluated[k])

\* C15 as stated: analyze_existing_logs evaluates exactly the logs that
\* load and match the filters, skips a log that fails to load or to
\* evaluate with a message and goes on, and reports one row per evaluated
\* log, in evaluation order
C15_EvaluatesMatchingLogs ==
    LogCalled("analyze_existing_logs") => AnalysisIsolatesFailures

\* C15: the same when OPENAI_API_KEY is set; without the key no log is
\* loaded or evaluated and there is no report
C15_EvaluatesMatchingLogsWithKey ==
    LogCalled("analyze_existing_logs") =>
        /\ logEnv.api_key => AnalysisIsolatesFailures
        /\ ~logEnv.api_key =>
               /\ logOut.ret.filtered_logs = <<>>
               /\ logOut.ret.evaluated = <<>>
               /\ logOut.ret.printed = <<>>
               /\ ~logOut.ret.saved
        /\ logOut.ret.saved <=> logOut.ret.report # <<>>
        /\ logOut.exc = "none"

\* the first matching log failed to evaluate and the second was evaluated
\* and reported
C15_Witness ==
    /\ LogCalled("analyze_existing_logs")
    /\ logEnv.api_key
    /\ Len(logOut.ret.filtered_logs) = 2
    /\ ~Evaluates(logOut.ret.filtered_logs[1])
    /\ logOut.ret.evaluated = <<logOut.ret.filtered_logs[2]>>
    /\ Len(logOut.ret.report) = 1
    /\ logCall.agent_name # <<>>

\* ------------------------------------------------------ claims: ingestion
StageRank == [download |-> 1, filter |-> 2, chunk |-> 3, index |-> 4]
StagesRun == [k \in 1..Len(ingTrace) |-> ingTrace[k].stage]
RanStage(stage) == \E k \in 1..Len(ingTrace) : ingTrace[k].stage = stage
StageEvent(stage) == ingTrace[CHOOSE k \in 1..Len(ingTrace) : ingTrace[k].stage = stage]

\* the filter of the call returns true for the document
FilterAccepts(doc) ==
    \/ ingArgs.filter.kind = "none"
    \/ ingArgs.filter.kind = "contains" /\ Contains(ingArgs.filter.sub, doc.filename)

\* C16: index_data runs download, filter, chunk, index in this order, each
\* at most once; when it returns, the documents chunked and indexed are
\* the downloaded ones the filter accepts, chunking ran only for a true
\* chunk (with size 2000 and step 1000 when no parameters were given), and
\* the index was fitted exactly once, last, on the final list
C16_StagesInOrder ==
    /\ \A j, k \in 1..Len(ingTrace) :
           j < k => StageRank[ingTrace[j].stage] < StageRank[ingTrace[k].stage]
    /\ ingPc # "returned" => ingIndex = <<>> /\ ~RanStage("index")
    /\ ingPc = "returned" =>
           LET downloaded == StageEvent("download").docs
               accepted == SelectSeq(downloaded, FilterAccepts)
               indexed == ingIndex.docs
           IN  /\ ingTrace[1].stage = "download"
               /\ ingTrace[Len(ingTrace)] = [stage |-> "index", docs |-> indexed]
               /\ ingIndex.fits = 1
               /\ indexed = ingDocs
               /\ RanStage("filter") <=> ingArgs.filter.kind # "none"
               /\ RanStage("filter") => StageEvent("filter").docs = downloaded
               /\ RanStage("chunk") <=> ingArgs.chunk
               /\ ~ingArgs.chunk => indexed = accepted
               /\ ingArgs.chunk =>
                      /\ StageEvent("chunk").docs = accepted
                      /\ ingArgs.chunking_params = [none |-> TRUE] =>
                             /\ StageEvent("chunk").params = [size |-> 2000, step |-> 1000]
                             /\ Len(indexed) =
                                    Cardinality({k \in 1..Len(accepted) :
                                                    accepted[k].content # <<>>})
                      /\ \A k \in 1..Len(indexed) :
                             \E j \in 1..Len(accepted) :
                                 /\ indexed[k].filename = accepted[j].filename
                                 /\ OccursAt(indexed[k].content, accepted[j],
                                             indexed[k].start)

\* index_data returned after filtering out a downloaded document and
\* chunking the other with the default parameters
C16_Witness ==
    /\ ingPc = "returned"
    /\ ingArgs.filter.kind = "contains"
    /\ ingArgs.chunk
    /\ ingArgs.chunking_params = [none |-> TRUE]
    /\ StagesRun = <<"download", "filter", "chunk", "index">>
    /\ Len(StageEvent("download").docs) = 2
    /\ Len(StageEvent("chunk").docs) = 1
    /\ Len(ingIndex.docs) = 1

\* ------------------------------------------------ claims: data-explorer chat
Asked(i) ==
    /\ loadedTables
    /\ i <= Len(chatMessages)
    /\ chatMessages[i].role = "user"

Answered(i) ==
    \E j \in (i + 1)..Len(chatMessages) : chatMessages[j].role = "assistant"

\* C18 as stated: every user message added to the chat history while
\* tables are loaded eventually has an assistant message after it in the
\* history, the first question and every later question of the session.
C18_EveryQuestionAnswered ==
    \A i \in 1..(2 * MaxQuestions) : Asked(i) ~> Answered(i)

\* the first question of a session is answered
FirstQuestionAnswered == Asked(1) ~> Answered(1)

\* the second question waits without a response: the script is idle, no
\* response is being processed, and the last message is the question
SecondQuestionUnanswered ==
    /\ chatPc = "idle"
    /\ ~processing
    /\ Len(chatMessages) = 3
    /\ chatMessages[2].role = "assistant"
    /\ chatMessages[3].role = "user"

\* ------------------------------------------------- claims: SimpleSearchIndex
\* the whole query is a case-insensitive substring of content or title
MatchesQuery(doc, query) ==
    \/ /\ "content" \in DOMAIN doc
       /\ Contains(Lower(query), Lower(doc.content))
    \/ /\ "title" \in DOMAIN doc
       /\ Contains(Lower(query), Lower(doc.title))
    \/ query = <<>>

\* the first n matching documents of the index, in index order
RECURSIVE FirstMatches(_, _, _)
FirstMatches(query, n, k) ==
    IF k > Len(indexDocs) \/ n <= 0 THEN <<>>
    ELSE IF MatchesQuery(indexDocs[k], query)
         THEN <<indexDocs[k]>> \o FirstMatches(query, n - 1, k + 1)
         ELSE FirstMatches(query, n, k + 1)

SearchCalled == searchCall.fn \in {"search", "text_search"}

\* C19 as stated: search(query, num_results) returns at most num_results
\* documents for every num_results >= 0; each returned document contains
\* the whole query as a case-insensitive substring of its content or title,
\* and the returned documents are the first such documents of the index,
\* in index order.
C19_FirstMatchesUpToNumResults ==
    SearchCalled =>
        /\ Len(searchOut.results) <= searchCall.num_results
        /\ \A k \in 1..Len(searchOut.results) :
               MatchesQuery(searchOut.results[k], searchCall.query)
        /\ searchOut.results =
               FirstMatches(searchCall.query, searchCall.num_results, 1)

\* what holds for num_results >= 1
FirstMatchesForPositiveLimit ==
    SearchCalled /\ searchCall.num_results >= 1 =>
        searchOut.results =
            FirstMatches(searchCall.query, searchCall.num_results, 1)

\* a search with num_results = 0 that returns a document
ZeroLimitReturnsOne ==
    /\ searchCall.fn = "search"
    /\ searchCall.num_results = 0
    /\ Len(searchOut.results) = 1

\* ------------------------------------------ claims: split_markdown_by_level
\* the line that starts at position p of the text split, without its newline
EndOfLine(p) ==
    IF \E q \in p..Len(mdText) : mdText[q] = "\n"
    THEN CHOOSE q \in p..Len(mdText) :
             /\ mdText[q] = "\n"
             /\ \A r \in p..(q - 1) : mdText[r] # "\n"
    ELSE Len(mdText) + 1
LineAt(p) == SubSeq(mdText, p, EndOfLine(p) - 1)

\* exactly `level' '#' characters, a space, and a title
IsHeaderLine(line, level) ==
    /\ Len(line) > level + 1
    /\ \A k \in 1..level : line[k] = "#"
    /\ line[level + 1] = " "

\* where the header lines of the level asked for start
HeaderStarts ==
    {p \in 1..Len(mdText) :
        /\ p = 1 \/ mdText[p - 1] = "\n"
        /\ IsHeaderLine(LineAt(p), mdLevel)}

\* the j-th of them, in document order
HeaderStart(j) ==
    CHOOSE p \in HeaderStarts :
        Cardinality({q \in HeaderStarts : q < p}) = j - 1

\* the text between the j-th header line and the next header of the level
TextUnder(j) ==
    LET later == {q \in HeaderStarts : q > HeaderStart(j)}
        stop == IF later = {} THEN Len(mdText) + 1
                ELSE CHOOSE q \in later : \A r \in later : q <= r
    IN  SubSeq(mdText, EndOfLine(HeaderStart(j)), stop - 1)

\* C20: split_markdown_by_level(text, level) returns one section per header
\* line of exactly that level (a line starting with exactly `level' '#'
\* characters followed by a space and a title), in document order; each
\* section starts with its header line and holds, after an empty line, the
\* text up to the next header of that level, both without surrounding
\* whitespace; text before the first such header is dropped, deeper-level
\* headers stay inside their section, and a text with no such header yields
\* no sections.
C20_OneSectionPerHeaderOfLevel ==
    mdLevel > 0 =>
        /\ Len(mdOut.sections) = Cardinality(HeaderStarts)
        /\ \A j \in 1..Len(mdOut.sections) :
               LET header == Strip(LineAt(HeaderStart(j)))
                   content == Strip(TextUnder(j))
               IN  mdOut.sections[j] =
                       IF content = <<>> THEN header
                       ELSE header \o <<"\n", "\n">> \o content

\* two headers of level 1 after a line of text, a deeper header under the
\* first
C20_Witness ==
    /\ mdLevel = 1
    /\ mdText = JoinLines(<<<<"a">>, <<"#", " ", "a">>,
                            <<"#", "#", " ", "a">>, <<"#", " ", "a">>>>)
    /\ mdOut.sections = << <<"#", " ", "a", "\n", "\n", "#", "#", " ", "a">>,
                           <<"#", " ", "a">> >>

\* ------------------------------------------------- claims: chunk offsets
\* C26 as stated: for every chunk of chunk_documents_sliding_window (fields
\* chunk_start and chunk) and of day6_ingest.chunk_documents (fields start
\* and content), the chunk text is the source document's content at the
\* chunk's start offset, whatever metadata keys the document carries.
C26_TextAtStartOffset ==
    \A c \in DocChunks :
        /\ DocCalled("chunk_documents_sliding_window") =>
              \E doc \in InputDocs : OccursAt(c.chunk, doc, c.chunk_start)
        /\ DocCalled("chunk_documents") =>
              \E doc \in InputDocs : OccursAt(c.content, doc, c.start)

\* a chunk of day6_ingest.chunk_documents whose start is the document's
\* frontmatter value, past the end of the content
StartFromFrontmatter ==
    /\ DocCalled("chunk_documents")
    /\ \E c \in DocChunks : c.start = MetaStart
    /\ \A doc \in InputDocs : ContentLen(doc) < MetaStart

\* the offsets of chunk_documents_sliding_window hold with that metadata
SlidingWindowOffsetsHold ==
    \A c \in DocChunks :
        DocCalled("chunk_documents_sliding_window") =>
            \E doc \in InputDocs : OccursAt(c.chunk, doc, c.chunk_start)

\* --------------------------------------------------- claims: log file names
\* C27 as stated: no call of log_interaction_to_file overwrites a file an
\* earlier call wrote: every call writes a path that did not exist, the
\* files already there stay as they are, and the number of files grows by
\* one with each call.
C27_EveryCallItsOwnFile ==
    [][/\ logCall'.fn = "log_interaction_to_file"
       /\ <<logCall, logOut, logFiles>>' # <<logCall, logOut, logFiles>>
       => /\ logOut'.ret \notin DOMAIN logFiles
          /\ Cardinality(DOMAIN logFiles') = Cardinality(DOMAIN logFiles) + 1
          /\ \A p \in DOMAIN logFiles : logFiles'[p] = logFiles[p]]_vars

\* ----------------------------------------------------- claims: get_agent
LoadedNameSet == {frames[k].name : k \in 1..Len(frames)}

\* an agent is stored and the loaded table names are those it was made with
SameTablesAsStored ==
    /\ "agent" \in DOMAIN agentState
    /\ agentState.agent.created_with = LoadedNameSet

\* C21: get_agent returns the agent stored in the session as long as the
\* set of loaded table names is the same as when that agent was created,
\* and creates a new agent exactly when no agent is stored or the set of
\* loaded table names has changed; after get_agent returns,
\* agent_tables_key is the sorted list of the loaded table names (as the
\* string str() makes of it).
C21_AgentReusedWhileTablesSame ==
    [][expCall'.fn = "get_agent" /\ expOut'.exc = "none" =>
          /\ SameTablesAsStored =>
                 /\ expOut'.ret = agentState.agent
                 /\ agentsMade' = agentsMade
          /\ ~SameTablesAsStored =>
                 /\ agentsMade' = agentsMade + 1
                 /\ expOut'.ret.id = agentsMade'
                 /\ expOut'.ret.created_with = LoadedNameSet
          /\ agentState'.agent = expOut'.ret
          /\ agentState'.agent_tables_key =
                 StrOfList(SortedNames(AllTables(frames)))]_vars

\* a second agent was made after a second table was loaded, and the key
\* lists the two names in sorted order, not in load order
C21_Witness ==
    /\ expCall.fn = "get_agent"
    /\ expOut.exc = "none"
    /\ agentsMade = 2
    /\ AllTables(frames) = <<<<"t">>, <<"s">>>>
    /\ agentState.agent.id = 2
    /\ agentState.agent_tables_key =
           <<"[", "'", "s", "'", ",", " ", "'", "t", "'", "]">>

\* -------------------------------------------------- claims: index_tables
DocNames == {tableDocs[k].table_name : k \in 1..Len(tableDocs)}

\* the loaded tables that can be described, in table order
Describable == SelectSeq(frames, LAMBDA f : f.df.describable)

C23_LoadOnlyFromConnectedDatabase ==
    [][/\ /\ expCall'.fn \in {"load_database_table", "list_database_tables"}
          /\ expCall'.args[1] \notin DOMAIN dbEngines'
          => /\ expOut'.exc = "ValueError"
             /\ frames' = frames
       /\ expCall'.fn = "load_database_table" /\ expOut'.exc = "none" =>
             LET name == expCall'.args[1] \o <<".">> \o expCall'.args[2]
             IN  /\ expCall'.args[1] \in DOMAIN dbEngines'
                 /\ expOut'.ret = name
                 /\ name \in LoadedNameSet'
                 /\ LoaderGetTableInfo(frames', name).exc = "none"
       /\ expCall'.fn = "get_table_info" =>
             IF expCall'.args[1] \in LoadedNameSet'
             THEN /\ expOut'.exc = "none"
                  /\ expOut'.ret.table_name = expCall'.args[1]
             ELSE expOut'.exc = "ValueError"]_vars

\* get_table_info succeeded for the table s of the connected database d,
\* while the database e was never connected
C23_Witness ==
    /\ expCall.fn = "get_table_info"
    /\ expCall.args[1] = <<"d", ".", "s">>
    /\ expOut.exc = "none"
    /\ DOMAIN dbEngines = {<<"d">>}
    /\ <<"d", ".", "s">> \in LoadedNameSet


\* ------------------------------------------------- claims: app.py's prompt
\* the messages before the current question, and the question
Preceding == SubSeq(chatMessages, 1, Len(chatMessages) - 1)
CurrentPrompt == chatMessages[Len(chatMessages)].content

\* the last n messages of a history
LastMessages(history, n) ==
    [i \in 1..Min(Len(history), n) |-> history[Len(history) - Min(Len(history), n) + i]]

RoleLabel(msg) == IF msg.role = "user" THEN "User: " ELSE "Assistant: "

\* one labelled line per message, in the order of the messages
RECURSIVE HistorySection(_)
HistorySection(msgs) ==
    IF msgs = <<>> THEN <<>>
    ELSE IF Len(msgs) = 1 THEN <<RoleLabel(msgs[1]), msgs[1].content>>
    ELSE <<RoleLabel(msgs[1]), msgs[1].content, "\n">> \o HistorySection(Tail(msgs))

\* C24: the prompt sent to the agent is the question alone when no message
\* precedes it; otherwise it is the heading, the last 10 preceding messages
\* at most, in their order and each labelled by its role, then the marker
\* and the current question, once, after the history section
C24_PromptHasLastTenThenQuestion ==
    [][chatPc = "responding" /\ agentPrompt' # NoPrompt
       => agentPrompt' =
            IF Preceding = <<>> THEN <<CurrentPrompt>>
            ELSE <<PreviousConversation>>
                 \o HistorySection(LastMessages(Preceding, 10))
                 \o <<CurrentQuestion, CurrentPrompt>>]_vars

\* a question with 12 messages before it was sent to the agent
C24_Witness ==
    /\ Len(chatMessages) = 14
    /\ chatMessages[14].role = "assistant"
    /\ agentPrompt # NoPrompt
    /\ Len(SelectSeq(agentPrompt, LAMBDA piece : piece \in {"User: ", "Assistant: "})) = 10

\* --------------------------------------------- claims: app.py's turn state
\* C28: between two turns the session holds no processing flag, no
\* _last_response and no _last_chart_params, so that the turn that
\* processes the next question finds none of them
C28_NoTurnStateSurvives ==
    /\ lastResponse = None
    /\ lastChartParams = None
    /\ processing => chatPc = "responding"

\* a response that displayed the chart of a tool call was handled, and the
\* next turn has begun
C28_Witness ==
    /\ chatPc = "responding"
    /\ chartShown = "chart of the tool"
    /\ chatMessages[Len(chatMessages)].role = "user"
    /\ \E i \in 1..Len(chatMessages) : chatMessages[i].role = "assistant"

\* ------------------------------------- claims: day-6 CLI and web app logging
EventAt(i) == d6Trace[i].ev

\* the input that began the turn event i belongs to
InputBefore(i) ==
    CHOOSE j \in 1..i : EventAt(j) = "input" /\ \A k \in (j + 1)..i : EventAt(k) # "input"

SameTurn(i, j) == InputBefore(i) = InputBefore(j)

LogsOfTurn(i) == {l \in 1..Len(d6Trace) : EventAt(l) = "log" /\ SameTurn(l, i)}

\* the inputs that are 'stop' once trimmed and lower-cased
StopInputs ==
    {<<"s", "t", "o", "p">>, <<" ", "S", "t", "o", "p", "\n">>, <<"S", "T", "O", "P">>}

\* C25: a question that was answered was logged exactly once in its turn,
\* after the agent was called and after every streamed piece, and before the
\* answer was handed over and the next input read; no turn logs twice, and a
\* log is of the question of its turn. The CLI does nothing but say goodbye
\* and exit after an input that is 'stop' once trimmed and lower-cased, and
\* calls the agent on any other input
C25_LoggedOnceAfterAnswer ==
    /\ \A i \in 1..Len(d6Trace) :
          /\ EventAt(i) = "answered" =>
                /\ Cardinality(LogsOfTurn(i)) = 1
                /\ \A l \in LogsOfTurn(i) :
                      /\ l < i
                      /\ \A p \in 1..Len(d6Trace) :
                            SameTurn(p, i) /\ EventAt(p) \in {"agent", "piece"} => p < l
          /\ EventAt(i) = "log" =>
                /\ Cardinality(LogsOfTurn(i)) = 1
                /\ d6Trace[i].text = d6Trace[InputBefore(i)].text
          /\ d6Program = "cli" /\ EventAt(i) = "input" =>
                IF d6Trace[i].text \in StopInputs
                THEN /\ d6Pc = "exited"
                     /\ \A k \in (i + 1)..Len(d6Trace) : EventAt(k) = "goodbye"
                ELSE i < Len(d6Trace) /\ EventAt(i + 1) = "agent"

\* the CLI answered and logged a question, then read ' Stop' and ended
C25_Witness ==
    /\ d6Program = "cli"
    /\ d6Pc = "exited"
    /\ Len(d6Trace) = 6
    /\ EventAt(3) = "log"
    /\ EventAt(4) = "answered"
    /\ d6Trace[5] = Event("input", <<" ", "S", "t", "o", "p", "\n">>)

\* the web app streamed two pieces, logged, and saved the answer
WebLoggedAfterLastPiece ==
    /\ d6Program = "web"
    /\ Len(d6Trace) >= 5
    /\ EventAt(2) = "piece"
    /\ EventAt(3) = "piece"
    /\ EventAt(4) = "log"
    /\ EventAt(5) = "answered"
    /\ Len(d6Messages) = 2
====
